---- MODULE Spec2Model ----
(***************************************************************************)
(* Floor-plan reconciliation core of Map-Creator.                          *)
(*                                                                         *)
(*   GridAligner        src/jsonfix.py                align_walls_globally *)
(*   PolygonGrouper     src/group_stair_polygons.py   group_stair_polygons *)
(*   EndpointExtender   src/pipeline_extend_endpoints.py  extend_endpoints *)
(*   CrossFloorMatcher  src/pipeline_match.py         match_coordinates    *)
(*   SegmentFuser       src/vectorize.py              merge_parallel_lines,*)
(*                          stitch_sequential_lines, merge_diagonals_wobble*)
(*   CornerLocker       src/vectorize.py     connect_corners_vh_and_lock,  *)
(*                          the snapping passes and fuse_close_endpoints   *)
(*                                                                         *)
(* Every stage is a batch transformation of a list of segments, so each    *)
(* stage has a specification of its own (SpecGrid, SpecPoly, SpecExt,      *)
(* SpecMatch, SpecMerge, SpecStitch, SpecWobble, SpecCorner): Init draws   *)
(* the input list from a bounded set and the actions run the stage.  The variables of the stages that a              *)
(* specification does not run stay at their idle values.                   *)
(***************************************************************************)
EXTENDS Integers, Sequences, FiniteSets, TLC

VARIABLES
    \* GridAligner: the JSON file content, the first input, completed runs
    g_lines, g_input, g_runs,
    \* PolygonGrouper: segments (the input list), the control point, the
    \* position of the outer loop in stair_indices, and the locals of
    \* group_stair_polygons
    segments, p_pc, p_k, polygon_id, assigned, polygon_assignments, queue,
    output_segments,
    \* EndpointExtender: lines_data (the argument), lines (the working copy),
    \* the control point, the loop counters and locals of extend_endpoints,
    \* the list as it was when the running pass began, and what the last
    \* processed endpoint decided
    lines_data, lines, e_pc, iteration, free_endpoints, e_k,
    modifications_this_iteration, e_pass_lines, e_last,
    \* CrossFloorMatcher: the two arguments, the control point and the
    \* returned pair
    reference_segments, target_segments, m_pc, modified_segments, snap_stats,
    \* SegmentFuser, merge_parallel_lines and stitch_sequential_lines: the
    \* function called, its two arguments, the control point and the
    \* returned list
    f_call, f_lines, f_orientation, f_pc, f_result,
    \* SegmentFuser, merge_diagonals_wobble: the argument, the locals
    \* current_lines and changed, the control point, the number of passes
    \* made and the list the last pass received
    w_lines, current_lines, changed, w_pc, w_passes, w_received,
    \* CornerLocker: the locals of process_map_final from step 2 on and the
    \* control point
    others, final_v, final_h, final_o, locked_set, all_lines, c_pc

g_vars == <<g_lines, g_input, g_runs>>

p_vars == <<segments, p_pc, p_k, polygon_id, assigned, polygon_assignments,
            queue, output_segments>>

e_vars == <<lines_data, lines, e_pc, iteration, free_endpoints, e_k,
            modifications_this_iteration, e_pass_lines, e_last>>

m_vars == <<reference_segments, target_segments, m_pc, modified_segments,
            snap_stats>>

f_vars == <<f_call, f_lines, f_orientation, f_pc, f_result>>

w_vars == <<w_lines, current_lines, changed, w_pc, w_passes, w_received>>

c_vars == <<others, final_v, final_h, final_o, locked_set, all_lines, c_pc>>

v_vars == <<f_vars, w_vars, c_vars>>

vars == <<g_vars, p_vars, e_vars, m_vars, v_vars>>

(***************************************************************************)
(* Arithmetic helpers                                                      *)
(***************************************************************************)

Abs(n) == IF n < 0 THEN -n ELSE n

SetMin(S) == CHOOSE m \in S : \A e \in S : m <= e

SetMax(S) == CHOOSE m \in S : \A e \in S : m >= e

RECURSIVE SeqSum(_)
SeqSum(s) == IF s = <<>> THEN 0 ELSE Head(s) + SeqSum(Tail(s))

SeqRange(s) == {s[i] : i \in 1..Len(s)}

\* sorted(list(set(coords))): the distinct values in increasing order
RECURSIVE SortedUnique(_)
SortedUnique(S) ==
    IF S = {} THEN <<>>
    ELSE LET m == SetMin(S) IN <<m>> \o SortedUnique(S \ {m})

\* int(round(num / den)) for den > 0: Python 3 rounds an exact half to the
\* even neighbour (round(7.5) = 8, round(2.5) = 2).  \div is the floor.
PyRoundFloor(num, den) == num \div den

PyRound(num, den) ==
    LET q == num \div den
        r == num % den
    IN  IF 2 * r < den THEN q
        ELSE IF 2 * r > den THEN q + 1
        ELSE IF q % 2 = 0 THEN q ELSE q + 1

(***************************************************************************)
(* GridAligner (src/jsonfix.py)                                            *)
(***************************************************************************)

GLOBAL_ALIGN_THRESHOLD == 20

SKEW_TOLERANCE == 15

IsSkewVerticalExact(line) == Abs(line.x1 - line.x2) < 1

\* line 31: the segment is treated as a (possibly skewed) vertical wall
IsSkewVertical(line) == Abs(line.x1 - line.x2) < SKEW_TOLERANCE

\* line 41 (elif): not vertical, and treated as a horizontal wall
IsSkewHorizontal(line) ==
    /\ ~IsSkewVertical(line)
    /\ Abs(line.y1 - line.y2) < SKEW_TOLERANCE

\* Both branches of step 1 extend both pools with both coordinates.
Pooled(line) == IsSkewVertical(line) \/ IsSkewHorizontal(line)

\* v_x_coords and h_y_coords; get_snap_rules reads them only through set()
VXCoords(ls) ==
    UNION {{ls[i].x1, ls[i].x2} : i \in {j \in 1..Len(ls) : Pooled(ls[j])}}

HYCoords(ls) ==
    UNION {{ls[i].y1, ls[i].y2} : i \in {j \in 1..Len(ls) : Pooled(ls[j])}}

\* line 65: does val join the cluster being built?
JoinsClusterFirst(val, current_cluster, threshold) ==
    val - current_cluster[1] <= threshold

JoinsCluster(val, current_cluster, threshold) ==
    val - current_cluster[Len(current_cluster)] <= threshold

\* lines 60-70: the greedy scan over unique_coords[i..]
RECURSIVE ClusterScan(_, _, _, _, _)
ClusterScan(unique_coords, i, clusters, current_cluster, threshold) ==
    IF i > Len(unique_coords) THEN Append(clusters, current_cluster)
    ELSE LET val == unique_coords[i] IN
         IF JoinsCluster(val, current_cluster, threshold)
         THEN ClusterScan(unique_coords, i + 1, clusters,
                          Append(current_cluster, val), threshold)
         ELSE ClusterScan(unique_coords, i + 1,
                          Append(clusters, current_cluster), <<val>>, threshold)

SnapRuleSum(clust) ==
    [min    |-> SetMin(SeqRange(clust)) - 2,
     max    |-> SetMax(SeqRange(clust)) + 2,
     target |-> SeqSum(clust)]

\* lines 73-83: one rule per cluster
SnapRule(clust) ==
    [min    |-> SetMin(SeqRange(clust)) - 2,
     max    |-> SetMax(SeqRange(clust)) + 2,
     target |-> PyRound(SeqSum(clust), Len(clust))]

\* lines 55-70: the clusters of the distinct sorted coordinates
Clusters(coords, threshold) ==
    IF coords = {} THEN <<>>
    ELSE LET unique_coords == SortedUnique(coords)
         IN  ClusterScan(unique_coords, 2, <<>>, <<unique_coords[1]>>, threshold)

\* lines 53-84
get_snap_rules(coords, threshold) ==
    LET clusters == Clusters(coords, threshold)
    IN  [k \in 1..Len(clusters) |-> SnapRule(clusters[k])]

\* lines 102-104: every rule is tried in order against the ORIGINAL value,
\* so the last matching rule decides
RECURSIVE ApplyRules(_, _, _, _)
ApplyRules(rules, k, orig, new) ==
    IF k > Len(rules) THEN new
    ELSE ApplyRules(rules, k + 1, orig,
                    IF rules[k].min <= orig /\ orig <= rules[k].max
                    THEN rules[k].target ELSE new)

Snap(rules, v) == ApplyRules(rules, 1, v, v)

\* lines 94-116: the other keys of the segment are kept
AlignLine(line, x_rules, y_rules) ==
    [line EXCEPT !.x1 = Snap(x_rules, line.x1),
                 !.x2 = Snap(x_rules, line.x2),
                 !.y1 = Snap(y_rules, line.y1),
                 !.y2 = Snap(y_rules, line.y2)]

XRules(ls) == get_snap_rules(VXCoords(ls), GLOBAL_ALIGN_THRESHOLD)

YRules(ls) == get_snap_rules(HYCoords(ls), GLOBAL_ALIGN_THRESHOLD)

\* lines 12-123: read the file, align, write the file
AlignAll(ls) ==
    LET x_rules == XRules(ls)
        y_rules == YRules(ls)
    IN  [i \in 1..Len(ls) |-> AlignLine(ls[i], x_rules, y_rules)]

(***************************************************************************)
(* GridAligner as a state machine: the file is read, aligned and written   *)
(* back; running the stage again reads the file the last run wrote.        *)
(***************************************************************************)

MaxGridLines == 2

MaxGridRuns == 2

GridXs == {0, 14, 20, 40, 60}

GridYs == {0, 15}

GridSegs == [x1 : GridXs, y1 : GridYs, x2 : GridXs, y2 : GridYs]

GridKey(s) == ((s.x1 * 100 + s.y1) * 100 + s.x2) * 100 + s.y2

\* spec section 8, scenario "grid fusion"
GridFusionScenario ==
    << [x1 |-> 100, y1 |-> 0, x2 |-> 100, y2 |-> 50],
       [x1 |-> 108, y1 |-> 0, x2 |-> 108, y2 |-> 50] >>

\* The bounded inputs are listed in one order each: the stage reads the list
\* only through the coordinate pools, which do not depend on the order.
GridInputs ==
    {l \in UNION {[1..n -> GridSegs] : n \in 1..MaxGridLines} :
        \A i \in 1..(Len(l) - 1) : GridKey(l[i]) <= GridKey(l[i + 1])}
    \cup {GridFusionScenario}

GridAlign ==
    /\ g_runs < MaxGridRuns
    /\ g_lines' = AlignAll(g_lines)
    /\ g_runs' = g_runs + 1
    /\ UNCHANGED <<g_input, p_vars, e_vars, m_vars, v_vars>>

(***************************************************************************)
(* PolygonGrouper (src/group_stair_polygons.py)                            *)
(***************************************************************************)

\* line 24: seg.get('type') == 'stair'
IsStairAny(seg) == TRUE

IsStair(seg) == "type" \in DOMAIN seg /\ seg.type = "stair"

\* lines 20-26: stair_indices, in list order (stair_segments has the same keys)
StairIndices(segs) ==
    SortedUnique({idx \in 1..Len(segs) : IsStair(segs[idx])})

StartOf(seg) == <<seg.x1, seg.y1>>

EndOf(seg) == <<seg.x2, seg.y2>>

\* lines 32-45: vertex_to_segments[v], the segment index of each entry, in
\* the order the entries are appended (per stair index: start, then end)
RECURSIVE VertexEntries(_, _, _, _)
VertexEntries(segs, stair_indices, k, v) ==
    IF k > Len(stair_indices) THEN <<>>
    ELSE LET idx == stair_indices[k] IN
         (IF StartOf(segs[idx]) = v THEN <<idx>> ELSE <<>>)
         \o (IF EndOf(segs[idx]) = v THEN <<idx>> ELSE <<>>)
         \o VertexEntries(segs, stair_indices, k + 1, v)

vertex_to_segments(segs, v) == VertexEntries(segs, StairIndices(segs), 1, v)

\* lines 76-78 and 80-82: the entries of one vertex that go on the queue
RECURSIVE Unassigned(_, _, _)
Unassigned(entries, done, segs) ==
    IF entries = <<>> THEN <<>>
    ELSE (IF Head(entries) \notin done /\ IsStair(segs[Head(entries)])
          THEN <<Head(entries)>> ELSE <<>>)
         \o Unassigned(Tail(entries), done, segs)

\* lines 75-82: what visiting idx appends to the queue
AdjacentStartOnly(segs, idx, done) ==
    Unassigned(vertex_to_segments(segs, StartOf(segs[idx])), done, segs)

Adjacent(segs, idx, done) ==
    Unassigned(vertex_to_segments(segs, StartOf(segs[idx])), done, segs)
    \o Unassigned(vertex_to_segments(segs, EndOf(segs[idx])), done, segs)

\* lines 90-95: seg.copy(), with the id when the index was assigned one
OutputSegment(seg, idx, assignments) ==
    IF idx \in DOMAIN assignments
    THEN [f \in DOMAIN seg \cup {"stair_polygon_id"} |->
            IF f = "stair_polygon_id" THEN assignments[idx] ELSE seg[f]]
    ELSE seg

\* lines 52-54: the outer loop meets a stair index that a BFS already reached
PolySkipStart_IdBump ==
    /\ p_pc = "outer"
    /\ p_k <= Len(StairIndices(segments))
    /\ StairIndices(segments)[p_k] \in assigned
    /\ p_k' = p_k + 1
    /\ polygon_id' = polygon_id + 1
    /\ UNCHANGED <<segments, p_pc, assigned, polygon_assignments,
                   queue, output_segments, g_vars, e_vars, m_vars, v_vars>>

PolySkipStart ==
    /\ p_pc = "outer"
    /\ p_k <= Len(StairIndices(segments))
    /\ StairIndices(segments)[p_k] \in assigned
    /\ p_k' = p_k + 1
    /\ UNCHANGED <<segments, p_pc, polygon_id, assigned, polygon_assignments,
                   queue, output_segments, g_vars, e_vars, m_vars, v_vars>>

\* lines 56-59: a new polygon starts at an unassigned stair index
PolyBegin ==
    /\ p_pc = "outer"
    /\ p_k <= Len(StairIndices(segments))
    /\ StairIndices(segments)[p_k] \notin assigned
    /\ queue' = <<StairIndices(segments)[p_k]>>
    /\ polygon_id' = polygon_id + 1
    /\ p_pc' = "bfs"
    /\ UNCHANGED <<segments, p_k, assigned, polygon_assignments,
                   output_segments, g_vars, e_vars, m_vars, v_vars>>

\* lines 61-65: the popped index was assigned after it was queued
PolyPopAssigned ==
    /\ p_pc = "bfs"
    /\ queue # <<>>
    /\ Head(queue) \in assigned
    /\ queue' = Tail(queue)
    /\ UNCHANGED <<segments, p_pc, p_k, polygon_id, assigned,
                   polygon_assignments, output_segments, g_vars, e_vars, m_vars, v_vars>>

\* lines 61-82: the popped index joins the polygon, its neighbours are queued
PolyVisit ==
    /\ p_pc = "bfs"
    /\ queue # <<>>
    /\ Head(queue) \notin assigned
    /\ LET idx == Head(queue) IN
        /\ assigned' = assigned \cup {idx}
        /\ polygon_assignments' =
              [i \in DOMAIN polygon_assignments \cup {idx} |->
                  IF i = idx THEN polygon_id ELSE polygon_assignments[i]]
        /\ queue' = Tail(queue) \o Adjacent(segments, idx, assigned \cup {idx})
    /\ UNCHANGED <<segments, p_pc, p_k, polygon_id, output_segments,
                   g_vars, e_vars, m_vars, v_vars>>

\* line 61: the queue is empty, the outer loop moves on
PolyEnd ==
    /\ p_pc = "bfs"
    /\ queue = <<>>
    /\ p_pc' = "outer"
    /\ p_k' = p_k + 1
    /\ UNCHANGED <<segments, polygon_id, assigned, polygon_assignments, queue,
                   output_segments, g_vars, e_vars, m_vars, v_vars>>

\* lines 86-99: the output list is built and written
PolyWrite ==
    /\ p_pc = "outer"
    /\ p_k > Len(StairIndices(segments))
    /\ output_segments' =
          [idx \in 1..Len(segments) |->
              OutputSegment(segments[idx], idx, polygon_assignments)]
    /\ p_pc' = "done"
    /\ UNCHANGED <<segments, p_k, polygon_id, assigned, polygon_assignments,
                   queue, g_vars, e_vars, m_vars, v_vars>>

\* Inputs: segments between four points of a square; stairs in both
\* orientations, walls in one (a wall's endpoints are never read).
MaxPolySegs == 3

PolyPoints == {<<0, 0>>, <<10, 0>>, <<0, 10>>, <<10, 10>>}

PolyBefore(p, q) == p[1] < q[1] \/ (p[1] = q[1] /\ p[2] < q[2])

PolySeg(p, q, t) == [x1 |-> p[1], y1 |-> p[2], x2 |-> q[1], y2 |-> q[2], type |-> t]

PolySegs ==
    {PolySeg(pq[1], pq[2], "stair") :
            pq \in {r \in PolyPoints \X PolyPoints : r[1] # r[2]}}
    \cup {PolySeg(pq[1], pq[2], "wall") :
            pq \in {r \in PolyPoints \X PolyPoints : PolyBefore(r[1], r[2])}}

\* spec section 8, scenario "polygon grouping": triangle A-B, B-C, C-A and a
\* disjoint segment D-E
PolyScenario ==
    << PolySeg(<<0, 0>>, <<10, 0>>, "stair"),
       PolySeg(<<10, 0>>, <<0, 10>>, "stair"),
       PolySeg(<<0, 10>>, <<0, 0>>, "stair"),
       PolySeg(<<10, 10>>, <<20, 10>>, "stair") >>

PolyInputs ==
    UNION {[1..n -> PolySegs] : n \in 1..MaxPolySegs} \cup {PolyScenario}

(***************************************************************************)
(* EndpointExtender (src/pipeline_extend_endpoints.py)                     *)
(*                                                                         *)
(* The code computes in binary floating point from integer coordinates.    *)
(* The model computes the same quantities exactly: a point is              *)
(* [nx, ny, d] for (nx / d, ny / d) with d > 0, a parameter is [n, d] for  *)
(* n / d with d > 0, a distance is the displacement it is the length of,   *)
(* and distances are compared by their squares.  On the segments of        *)
(* ExtCatalog and ExtScenarios the Python function returns what the exact  *)
(* computation returns (rounding errors of the floating point decide no    *)
(* comparison there).                                                      *)
(***************************************************************************)

\* extend_endpoints(lines_data, max_iterations=3, tolerance=2.0,
\*                  snap_distance=50.0), line 75
max_iterations == 3

tolerance == 2

snap_distance == 50

\* line 260: the literal 2.0
on_segment_tolerance == 2

\* The arithmetic below binds intermediate results as values (x \in {e},
\* The({body : x \in {e}})): a result is then evaluated once, however often
\* the body uses it.
The(S) == CHOOSE r \in S : TRUE

RECURSIVE GCD(_, _)
GCD(a, b) ==
    CHOOSE g \in {IF y = 0 THEN x ELSE GCD(y, x % y) : x \in {a}, y \in {b}} : TRUE

Rat(n, d) ==
    The({IF d < 0 THEN [n |-> (-n) \div g, d |-> (-d) \div g]
         ELSE [n |-> n \div g, d |-> d \div g]
           : g \in {GCD(Abs(n), Abs(d))}})

\* a <= b for rationals with positive denominators, by continued fractions
\* (no product that could leave the integer range)
RECURSIVE RatLeq(_, _)
RatLeq(a, b) ==
    \E x \in {a}, y \in {b} :
        \E qa \in {x.n \div x.d}, qb \in {y.n \div y.d},
           ra \in {x.n % x.d}, rb \in {y.n % y.d} :
            IF qa # qb THEN qa < qb
            ELSE IF ra = 0 THEN TRUE
            ELSE IF rb = 0 THEN FALSE
            ELSE RatLeq([n |-> y.d, d |-> rb], [n |-> x.d, d |-> ra])

RatPoint(nx, ny, d) ==
    The({IF d < 0 THEN [nx |-> (-nx) \div g, ny |-> (-ny) \div g, d |-> (-d) \div g]
         ELSE [nx |-> nx \div g, ny |-> ny \div g, d |-> d \div g]
           : g \in {GCD(GCD(Abs(nx), Abs(ny)), Abs(d))}})

IntPoint(x, y) == [nx |-> x, ny |-> y, d |-> 1]

\* (x + t * dx, y + t * dy) for t = tn / td, td # 0  (lines 34-35, 66-67, 156-157)
PointAt(x, y, dx, dy, tn, td) ==
    The({RatPoint(x * t.d + t.n * dx, y * t.d + t.n * dy, t.d)
           : t \in {Rat(tn, td)}})

\* Natural numbers beyond the range of the integers of the checker, as
\* base-10000 digits, lowest first, without leading zeros: the squares of
\* line 73 need them
RECURSIVE BigOf(_)
BigOf(n) ==
    CHOOSE r \in {IF v = 0 THEN <<>> ELSE <<v % 10000>> \o BigOf(v \div 10000)
                    : v \in {n}} : TRUE

RECURSIVE BigAddCarry(_, _, _)
BigAddCarry(a, b, carry) ==
    CHOOSE r \in
        {IF x = <<>> /\ y = <<>> THEN BigOf(c)
         ELSE LET sum == (IF x = <<>> THEN 0 ELSE Head(x))
                            + (IF y = <<>> THEN 0 ELSE Head(y)) + c
              IN  <<sum % 10000>>
                     \o BigAddCarry(IF x = <<>> THEN <<>> ELSE Tail(x),
                                    IF y = <<>> THEN <<>> ELSE Tail(y),
                                    sum \div 10000)
           : x \in {a}, y \in {b}, c \in {carry}} : TRUE

BigAdd(a, b) == BigAddCarry(a, b, 0)

\* a * digit + carry for 0 < digit < 10000
RECURSIVE BigTimes(_, _, _)
BigTimes(a, digit, carry) ==
    CHOOSE r \in
        {IF x = <<>> THEN BigOf(c)
         ELSE <<(Head(x) * digit + c) % 10000>>
                 \o BigTimes(Tail(x), digit, (Head(x) * digit + c) \div 10000)
           : x \in {a}, c \in {carry}} : TRUE

RECURSIVE BigMul(_, _)
BigMul(a, b) ==
    CHOOSE r \in
        {IF x = <<>> \/ y = <<>> THEN <<>>
         ELSE CHOOSE q \in
                {IF Head(y) = 0 THEN shifted
                 ELSE BigAdd(BigTimes(x, Head(y), 0), shifted)
                   : shifted \in {IF rest = <<>> THEN <<>> ELSE <<0>> \o rest
                                    : rest \in {BigMul(x, Tail(y))}}} : TRUE
           : x \in {a}, y \in {b}} : TRUE

RECURSIVE BigLeqFrom(_, _, _)
BigLeqFrom(a, b, i) ==
    IF i = 0 THEN TRUE
    ELSE IF a[i] # b[i] THEN a[i] < b[i]
    ELSE BigLeqFrom(a, b, i - 1)

BigLeq(a, b) ==
    \E x \in {a}, y \in {b} :
        IF Len(x) # Len(y) THEN Len(x) < Len(y) ELSE BigLeqFrom(x, y, Len(x))

\* lines 71-73: the distance of two points is kept as the displacement
\* (ax / den, ay / den), ax, ay >= 0, in lowest terms; it stands for
\* sqrt(ax^2 + ay^2) / den
distance_point_to_point(p1, p2) ==
    The({The({The({[ax |-> ax \div h, ay |-> ay \div h, den |-> den \div h]
                     : h \in {GCD(GCD(ax, ay), den)}})
                : ax \in {Abs(a.nx * (b.d \div g) - b.nx * (a.d \div g))},
                  ay \in {Abs(a.ny * (b.d \div g) - b.ny * (a.d \div g))},
                  den \in {a.d * (b.d \div g)}})
           : a \in {p1}, b \in {p2}, g \in {GCD(p1.d, p2.d)}})

\* ax^2 + ay^2 and den^2
DistNum(dist) ==
    The({BigAdd(BigMul(BigOf(v.ax), BigOf(v.ax)), BigMul(BigOf(v.ay), BigOf(v.ay)))
           : v \in {dist}})

DistDen(dist) == BigMul(BigOf(dist.den), BigOf(dist.den))

\* a <= b for two distances
DistLeq(a, b) ==
    \E x \in {a}, y \in {b} :
        BigLeq(BigMul(DistNum(x), DistDen(y)), BigMul(DistNum(y), DistDen(x)))

\* dist < bound for a distance and an integer bound
Below(dist, bound) ==
    \E v \in {dist} :
        ~BigLeq(BigMul(BigOf(bound * bound), DistDen(v)), DistNum(v))

\* dist <= bound for a distance and an integer bound
Within(dist, bound) ==
    \E v \in {dist} :
        BigLeq(DistNum(v), BigMul(BigOf(bound * bound), DistDen(v)))

\* line_intersection without the parallel test: a pair with determinant 0
\* yields the start of the second segment
line_intersectionParallel(a, b) ==
    LET dx1 == a.x2 - a.x1
        dy1 == a.y2 - a.y1
        dx2 == b.x2 - b.x1
        dy2 == b.y2 - b.y1
        denom == dx1 * dy2 - dy1 * dx2
    IN  IF denom = 0 THEN << IntPoint(b.x1, b.y1) >>
        ELSE << PointAt(a.x1, a.y1, dx1, dy1,
                        (b.x1 - a.x1) * dy2 - (b.y1 - a.y1) * dx2, denom) >>

\* lines 5-37: <<>> is None.  For integer coordinates abs(denom) < 1e-10
\* is denom = 0.
line_intersection(a, b) ==
    LET dx1 == a.x2 - a.x1
        dy1 == a.y2 - a.y1
        dx2 == b.x2 - b.x1
        dy2 == b.y2 - b.y1
        denom == dx1 * dy2 - dy1 * dx2
    IN  IF denom = 0 THEN <<>>
        ELSE << PointAt(a.x1, a.y1, dx1, dy1,
                        (b.x1 - a.x1) * dy2 - (b.y1 - a.y1) * dx2, denom) >>

\* lines 39-69
distance_point_to_line_segment(point, seg) ==
    LET dx == seg.x2 - seg.x1
        dy == seg.y2 - seg.y1
        tn == (point.nx - seg.x1 * point.d) * dx + (point.ny - seg.y1 * point.d) * dy
        td == point.d * (dx * dx + dy * dy)
    IN  IF dx = 0 /\ dy = 0
        THEN distance_point_to_point(point, IntPoint(seg.x1, seg.y1))
        ELSE distance_point_to_point(point,
                IF tn <= 0 THEN IntPoint(seg.x1, seg.y1)
                ELSE IF tn >= td THEN IntPoint(seg.x2, seg.y2)
                ELSE PointAt(seg.x1, seg.y1, dx, dy, tn, td))

\* lines 108-118: every segment end, in the order the loop meets them
AllEnds(ls) ==
    [k \in 1..(2 * Len(ls)) |->
        IF k % 2 = 1
        THEN [pt |-> <<ls[(k + 1) \div 2].x1, ls[(k + 1) \div 2].y1>>,
              line_idx |-> (k + 1) \div 2, position |-> "start"]
        ELSE [pt |-> <<ls[k \div 2].x2, ls[k \div 2].y2>>,
              line_idx |-> k \div 2, position |-> "end"]]

RECURSIVE SelectEnds(_, _)
SelectEnds(ends, pt) ==
    IF ends = <<>> THEN <<>>
    ELSE (IF Head(ends).pt = pt THEN <<Head(ends)>> ELSE <<>>)
         \o SelectEnds(Tail(ends), pt)

\* endpoint_usage[pt]
Uses(ls, pt) == SelectEnds(AllEnds(ls), pt)

\* every point that holds an end counts as free
IsFreeUseAny(n) == n >= 1

\* line 121: len(uses) == 1
IsFreeUse(n) == n = 1

\* lines 106-121: the items of free_endpoints in dict order (the order in
\* which the points were first met); an item is uses[0] of its point
RECURSIVE FreeScan(_, _, _)
FreeScan(ls, ends, seen) ==
    IF ends = <<>> THEN <<>>
    ELSE IF Head(ends).pt \in seen THEN FreeScan(ls, Tail(ends), seen)
    ELSE (IF IsFreeUse(Len(Uses(ls, Head(ends).pt)))
          THEN <<Uses(ls, Head(ends).pt)[1]>> ELSE <<>>)
         \o FreeScan(ls, Tail(ends), seen \cup {Head(ends).pt})

FreeEndpoints(ls) == FreeScan(ls, AllEnds(ls), {})

\* the same test with dist_to_line < tolerance
OnLineOfStrict(px, py, other, tol) ==
    LET dx == other.x2 - other.x1
        dy == other.y2 - other.y1
        dist == distance_point_to_point(
                      IntPoint(px, py),
                      PointAt(other.x1, other.y1, dx, dy,
                              (px - other.x1) * dx + (py - other.y1) * dy,
                              dx * dx + dy * dy))
    IN  /\ ~(dx = 0 /\ dy = 0)
        /\ Below(dist, tol)

\* lines 140-164: is the endpoint within tolerance of the infinite line of
\* another (non-degenerate) segment?
OnLineOf(px, py, other, tol) ==
    LET dx == other.x2 - other.x1
        dy == other.y2 - other.y1
    IN  /\ ~(dx = 0 /\ dy = 0)
        /\ Within(distance_point_to_point(
                      IntPoint(px, py),
                      PointAt(other.x1, other.y1, dx, dy,
                              (px - other.x1) * dx + (py - other.y1) * dy,
                              dx * dx + dy * dy)),
                  tol)

already_on_line(ls, line_idx, px, py) ==
    \E other_idx \in 1..Len(ls) :
        other_idx # line_idx /\ OnLineOf(px, py, ls[other_idx], tolerance)

\* lines 190-211: has the endpoint passed the intersection, seen from
\* (x1, y1) along the current line?
HasCrossed(cur, px, py, inter) ==
    LET dx_current == cur.x2 - cur.x1
        dy_current == cur.y2 - cur.y1
        useX == Abs(dx_current) > Abs(dy_current)
        ref == IF useX THEN dx_current ELSE dy_current
        t_endpoint == IF useX THEN Rat(px - cur.x1, ref) ELSE Rat(py - cur.y1, ref)
        t_intersection ==
            IF useX THEN Rat(inter.nx - cur.x1 * inter.d, inter.d * ref)
            ELSE Rat(inter.ny - cur.y1 * inter.d, inter.d * ref)
    IN  /\ ref # 0
        /\ \/ (t_endpoint.n > 0 /\ t_intersection.n > 0
                  /\ RatLeq(t_intersection, t_endpoint))
           \/ (t_endpoint.n < 0 /\ t_intersection.n < 0
                  /\ RatLeq(t_endpoint, t_intersection))

Candidate(px, py, inter, other_idx) ==
    [dist |-> distance_point_to_point(IntPoint(px, py), inter),
     pt |-> inter, other_idx |-> other_idx]

\* lines 172-214: already_intersects, in the order of other_idx
RECURSIVE CrossedScan(_, _, _, _, _)
CrossedScan(ls, line_idx, px, py, other_idx) ==
    IF other_idx > Len(ls) THEN <<>>
    ELSE The({IF other_idx # line_idx /\ inter # <<>>
                    /\ HasCrossed(ls[line_idx], px, py, inter[1])
              THEN <<Candidate(px, py, inter[1], other_idx)>> ELSE <<>>
                : inter \in {line_intersection(ls[line_idx], ls[other_idx])}})
         \o CrossedScan(ls, line_idx, px, py, other_idx + 1)

already_intersects(ls, line_idx, px, py) == CrossedScan(ls, line_idx, px, py, 1)

\* the fresh search without the snap_distance limit
RECURSIVE FreshScanUnlimited(_, _, _, _, _)
FreshScanUnlimited(ls, line_idx, px, py, other_idx) ==
    IF other_idx > Len(ls) THEN <<>>
    ELSE The({IF other_idx # line_idx /\ inter # <<>>
                    /\ Within(distance_point_to_line_segment(inter[1], ls[other_idx]),
                              on_segment_tolerance)
              THEN <<Candidate(px, py, inter[1], other_idx)>> ELSE <<>>
                : inter \in {line_intersection(ls[line_idx], ls[other_idx])}})
         \o FreshScanUnlimited(ls, line_idx, px, py, other_idx + 1)

\* lines 241-268: intersections, in the order of other_idx
RECURSIVE FreshScan(_, _, _, _, _)
FreshScan(ls, line_idx, px, py, other_idx) ==
    IF other_idx > Len(ls) THEN <<>>
    ELSE The({IF other_idx # line_idx /\ inter # <<>>
                    /\ Within(distance_point_to_line_segment(inter[1], ls[other_idx]),
                              on_segment_tolerance)
                    /\ Within(distance_point_to_point(IntPoint(px, py), inter[1]),
                              snap_distance)
              THEN <<Candidate(px, py, inter[1], other_idx)>> ELSE <<>>
                : inter \in {line_intersection(ls[line_idx], ls[other_idx])}})
         \o FreshScan(ls, line_idx, px, py, other_idx + 1)

intersections(ls, line_idx, px, py) == FreshScan(ls, line_idx, px, py, 1)

\* list.sort(key=lambda x: x[0]) is stable: insertion after the last item
\* that is not farther
RECURSIVE InsertByDist(_, _)
InsertByDist(sorted, c) ==
    The({IF done = <<>> THEN <<new>>
         ELSE IF DistLeq(Head(done).dist, new.dist)
              THEN <<Head(done)>> \o InsertByDist(Tail(done), new)
              ELSE <<new>> \o done
           : done \in {sorted}, new \in {c}})

RECURSIVE SortByDist(_)
SortByDist(cands) ==
    The({IF list = <<>> THEN <<>>
         ELSE InsertByDist(SortByDist(SubSeq(list, 1, Len(list) - 1)),
                           list[Len(list)])
           : list \in {cands}})

\* lines 218-219 and 273-274: sort, then take item 0
UnsortedFirst(cands) == cands[1]

Closest(cands) == SortByDist(cands)[1]

\* lines 221-222 and 277-278
Rounded(pt) == <<PyRound(pt.nx, pt.d), PyRound(pt.ny, pt.d)>>

\* the end opposite to position is rewritten
MoveOtherEnd(ls, line_idx, position, new) ==
    [ls EXCEPT ![line_idx] =
        IF position = "start"
        THEN [@ EXCEPT !.x2 = new[1], !.y2 = new[2]]
        ELSE [@ EXCEPT !.x1 = new[1], !.y1 = new[2]]]

\* lines 224-236 and 281-293: the end named by position is rewritten
MoveEnd(ls, line_idx, position, new) ==
    [ls EXCEPT ![line_idx] =
        IF position = "start"
        THEN [@ EXCEPT !.x1 = new[1], !.y1 = new[2]]
        ELSE [@ EXCEPT !.x2 = new[1], !.y2 = new[2]]]

\* the loop body with the already-crossed check before the on-line check
BranchCrossedFirst(ls, entry) ==
    IF already_intersects(ls, entry.line_idx, entry.pt[1], entry.pt[2]) # <<>>
         THEN "crossed"
    ELSE IF already_on_line(ls, entry.line_idx, entry.pt[1], entry.pt[2]) THEN "on_line"
    ELSE IF intersections(ls, entry.line_idx, entry.pt[1], entry.pt[2]) # <<>>
         THEN "fresh"
    ELSE "none"

\* lines 127-293: the loop body for one item of free_endpoints
Branch(ls, entry) ==
    IF already_on_line(ls, entry.line_idx, entry.pt[1], entry.pt[2]) THEN "on_line"
    ELSE IF already_intersects(ls, entry.line_idx, entry.pt[1], entry.pt[2]) # <<>>
         THEN "crossed"
    ELSE IF intersections(ls, entry.line_idx, entry.pt[1], entry.pt[2]) # <<>>
         THEN "fresh"
    ELSE "none"

Entry == free_endpoints[e_k]

\* lines 95-96: an empty list is returned as it is
ExtReturnEmpty ==
    /\ e_pc = "pass"
    /\ lines_data = <<>>
    /\ e_pc' = "done"
    /\ UNCHANGED <<lines_data, lines, iteration, free_endpoints, e_k,
                   modifications_this_iteration, e_pass_lines, e_last,
                   g_vars, p_vars, m_vars, v_vars>>

\* a pass begins whatever the value of iteration
ExtStartPassUncapped ==
    /\ e_pc = "pass"
    /\ lines_data # <<>>
    /\ free_endpoints' = FreeEndpoints(lines)
    /\ e_k' = 1
    /\ modifications_this_iteration' = 0
    /\ e_pass_lines' = lines
    /\ e_last' = <<>>
    /\ e_pc' = "endpoints"
    /\ UNCHANGED <<lines_data, lines, iteration, g_vars, p_vars, m_vars, v_vars>>

\* lines 103-125: a pass begins: the free endpoints are computed once
ExtStartPass ==
    /\ e_pc = "pass"
    /\ lines_data # <<>>
    /\ iteration < max_iterations
    /\ free_endpoints' = FreeEndpoints(lines)
    /\ e_k' = 1
    /\ modifications_this_iteration' = 0
    /\ e_pass_lines' = lines
    /\ e_last' = <<>>
    /\ e_pc' = "endpoints"
    /\ UNCHANGED <<lines_data, lines, iteration, g_vars, p_vars, m_vars, v_vars>>

\* lines 137-168: the endpoint is on another line already and is skipped
ExtSkipOnLine ==
    /\ e_pc = "endpoints"
    /\ e_k <= Len(free_endpoints)
    /\ Branch(lines, Entry) = "on_line"
    /\ e_k' = e_k + 1
    /\ e_last' = [entry |-> Entry, branch |-> "on_line", cands |-> <<>>,
                  new |-> Entry.pt]
    /\ UNCHANGED <<lines_data, lines, e_pc, iteration, free_endpoints,
                   modifications_this_iteration, e_pass_lines,
                   g_vars, p_vars, m_vars, v_vars>>

\* what the two snapping branches share: the closest candidate is rounded,
\* the end is rewritten when that changes it
SnapTo(cands, branch) ==
    \E found \in {cands} : \E new \in {Rounded(Closest(found).pt)} :
        /\ e_k' = e_k + 1
        /\ e_last' = [entry |-> Entry, branch |-> branch, cands |-> found,
                      new |-> new]
        /\ IF new # Entry.pt
           THEN /\ lines' = MoveEnd(lines, Entry.line_idx, Entry.position, new)
                /\ modifications_this_iteration' = modifications_this_iteration + 1
           ELSE UNCHANGED <<lines, modifications_this_iteration>>
        /\ UNCHANGED <<lines_data, e_pc, iteration, free_endpoints, e_pass_lines,
                       g_vars, p_vars, m_vars, v_vars>>

\* lines 170-238: the endpoint has crossed other lines: snap back
ExtSnapBack ==
    /\ e_pc = "endpoints"
    /\ e_k <= Len(free_endpoints)
    /\ Branch(lines, Entry) = "crossed"
    /\ SnapTo(already_intersects(lines, Entry.line_idx, Entry.pt[1], Entry.pt[2]),
              "crossed")

\* lines 240-293: fresh intersection search with a result
ExtSnapFresh ==
    /\ e_pc = "endpoints"
    /\ e_k <= Len(free_endpoints)
    /\ Branch(lines, Entry) = "fresh"
    /\ SnapTo(intersections(lines, Entry.line_idx, Entry.pt[1], Entry.pt[2]),
              "fresh")

\* lines 240-271: fresh intersection search without a result
ExtNoCandidate ==
    /\ e_pc = "endpoints"
    /\ e_k <= Len(free_endpoints)
    /\ Branch(lines, Entry) = "none"
    /\ e_k' = e_k + 1
    /\ e_last' = [entry |-> Entry, branch |-> "none", cands |-> <<>>,
                  new |-> Entry.pt]
    /\ UNCHANGED <<lines_data, lines, e_pc, iteration, free_endpoints,
                   modifications_this_iteration, e_pass_lines,
                   g_vars, p_vars, m_vars, v_vars>>

\* lines 295-299: a pass without modification ends the loop
ExtConverged ==
    /\ e_pc = "endpoints"
    /\ e_k > Len(free_endpoints)
    /\ modifications_this_iteration = 0
    /\ e_pc' = "done"
    /\ UNCHANGED <<lines_data, lines, iteration, free_endpoints, e_k,
                   modifications_this_iteration, e_pass_lines, e_last,
                   g_vars, p_vars, m_vars, v_vars>>

\* line 103: the next pass
ExtNextPass ==
    /\ e_pc = "endpoints"
    /\ e_k > Len(free_endpoints)
    /\ modifications_this_iteration > 0
    /\ iteration' = iteration + 1
    /\ e_pc' = "pass"
    /\ UNCHANGED <<lines_data, lines, free_endpoints, e_k,
                   modifications_this_iteration, e_pass_lines, e_last,
                   g_vars, p_vars, m_vars, v_vars>>

\* lines 103 and 299: range(max_iterations) is used up
ExtReturnCap ==
    /\ e_pc = "pass"
    /\ lines_data # <<>>
    /\ iteration >= max_iterations
    /\ e_pc' = "done"
    /\ UNCHANGED <<lines_data, lines, iteration, free_endpoints, e_k,
                   modifications_this_iteration, e_pass_lines, e_last,
                   g_vars, p_vars, m_vars, v_vars>>

MaxExtLines == 3

Line(x1, y1, x2, y2) == [x1 |-> x1, y1 |-> y1, x2 |-> x2, y2 |-> y2]

ExtCatalog ==
    { Line(0, 10, 20, 10), Line(30, 0, 30, 20), Line(50, 0, 50, 20),
      Line(0, 10, 10, 10), Line(0, 12, 28, 12), Line(0, 10, 60, 10),
      Line(50, 0, 0, 30), Line(60, 40, 20, 20), Line(0, 10, 0, 30) }

\* A horizontal wall on y = 50 inside [0, 100] with one end at (48, 50), or
\* at (47, 50), next to the wall (50, 0)-(50, 100).
ScenarioWall == Line(50, 0, 50, 100)

ExtScenarios ==
    { << Line(0, 50, 48, 50), ScenarioWall >>,
      << Line(48, 50, 100, 50), ScenarioWall >>,
      << Line(0, 50, 47, 50), ScenarioWall >>,
      << Line(47, 50, 100, 50), ScenarioWall >> }

ExtInputs ==
    UNION {[1..n -> ExtCatalog] : n \in 0..MaxExtLines} \cup ExtScenarios

(***************************************************************************)
(* CrossFloorMatcher: src/pipeline_match.py                                *)
(***************************************************************************)

\* line 159: the default of match_coordinates
threshold == 50

\* lines 34-42: a point enters the dict under its key "x,y" unless the key
\* is there; for integers the key names the point
AddPoint(points, p) ==
    IF \E i \in 1..Len(points) : points[i] = p THEN points ELSE Append(points, p)

\* 'x1' in seg: a segment is a record that may lack keys
HasKey(seg, key) == key \in DOMAIN seg

\* seg.get(key, default)
GetKey(seg, key, default) == IF HasKey(seg, key) THEN seg[key] ELSE default

\* lines 24-44: the values of the dict, in insertion order; a segment
\* without x1 or y1 gives no point, a missing x2 or y2 is read as x1 or y1
RECURSIVE extract_unique_points(_)
extract_unique_points(segs) ==
    IF segs = <<>> THEN <<>>
    ELSE LET seg == segs[Len(segs)]
             init == extract_unique_points(SubSeq(segs, 1, Len(segs) - 1))
         IN  IF HasKey(seg, "x1") /\ HasKey(seg, "y1")
             THEN AddPoint(AddPoint(init, <<seg.x1, seg.y1>>),
                           <<GetKey(seg, "x2", seg.x1), GetKey(seg, "y2", seg.y1)>>)
             ELSE init

\* lines 183-186: the keys of x_groups (axis 1) and y_groups (axis 2) in
\* dict order
RECURSIVE GroupKeys(_, _)
GroupKeys(points, axis) ==
    IF points = <<>> THEN <<>>
    ELSE LET init == GroupKeys(SubSeq(points, 1, Len(points) - 1), axis)
             v == points[Len(points)][axis]
         IN  IF \E i \in 1..Len(init) : init[i] = v THEN init ELSE Append(init, v)

\* lines 204 and 223: distance < best_distance
IsBetter(distance, best_distance) == distance < best_distance

\* lines 197-206 and 216-225: the loop over reference_points; <<>> is None
RECURSIVE BestSnapScan(_, _, _, _, _, _)
BestSnapScan(reference_points, axis, target, best_snap, best_distance, k) ==
    IF k > Len(reference_points) THEN best_snap
    ELSE LET ref == reference_points[k][axis]
             distance == Abs(ref - target)
         IN  IF IsBetter(distance, best_distance)
             THEN BestSnapScan(reference_points, axis, target, <<ref>>, distance, k + 1)
             ELSE BestSnapScan(reference_points, axis, target, best_snap,
                               best_distance, k + 1)

BestSnap(reference_points, axis, target, thr) ==
    BestSnapScan(reference_points, axis, target, <<>>, thr, 1)

\* lines 189-228: x_snap_mapping (axis 1) and y_snap_mapping (axis 2)
SnapMapping(reference_points, target_points, axis, thr) ==
    LET keys == GroupKeys(target_points, axis)
        mapped == {keys[i] : i \in {j \in 1..Len(keys) :
                      BestSnap(reference_points, axis, keys[j], thr) # <<>>}}
    IN  [old \in mapped |-> BestSnap(reference_points, axis, old, thr)[1]]

MapGetHalfway(mapping, old) ==
    IF old \in DOMAIN mapping THEN (mapping[old] + old) \div 2 ELSE old

\* mapping.get(old, old)
MapGet(mapping, old) == IF old \in DOMAIN mapping THEN mapping[old] ELSE old

\* lines 237-257: the copy of a segment; p1 is mapped when x1 and y1 are
\* there, p2 when x2 and y2 are there
SnapSegment(seg, x_snap_mapping, y_snap_mapping) ==
    LET p1 == IF HasKey(seg, "x1") /\ HasKey(seg, "y1")
              THEN [seg EXCEPT !.x1 = MapGet(x_snap_mapping, seg.x1),
                               !.y1 = MapGet(y_snap_mapping, seg.y1)]
              ELSE seg
    IN  IF HasKey(seg, "x2") /\ HasKey(seg, "y2")
        THEN [p1 EXCEPT !.x2 = MapGet(x_snap_mapping, seg.x2),
                        !.y2 = MapGet(y_snap_mapping, seg.y2)]
        ELSE p1

\* lines 159-273: the returned pair
match_coordinates(refs, targets, thr) ==
    LET reference_points == extract_unique_points(refs)
        target_points == extract_unique_points(targets)
        x_snap_mapping == SnapMapping(reference_points, target_points, 1, thr)
        y_snap_mapping == SnapMapping(reference_points, target_points, 2, thr)
        snapped_x == Cardinality(DOMAIN x_snap_mapping)
        snapped_y == Cardinality(DOMAIN y_snap_mapping)
        total_lines == Len(GroupKeys(target_points, 1))
                          + Len(GroupKeys(target_points, 2))
    IN  [modified_segments |->
            [i \in 1..Len(targets) |->
                SnapSegment(targets[i], x_snap_mapping, y_snap_mapping)],
         stats |->
            [total_reference_points |-> Len(reference_points),
             total_target_points |-> Len(target_points),
             vertical_lines_snapped |-> snapped_x,
             horizontal_lines_snapped |-> snapped_y,
             total_lines |-> total_lines,
             snap_percentage |->
                IF total_lines # 0
                THEN Rat((snapped_x + snapped_y) * 100, total_lines)
                ELSE Rat(0, 1)]]

\* one call of match_coordinates with the default threshold
MatchCoordinates ==
    /\ m_pc = "call"
    /\ modified_segments' =
          match_coordinates(reference_segments, target_segments,
                            threshold).modified_segments
    /\ snap_stats' =
          match_coordinates(reference_segments, target_segments, threshold).stats
    /\ m_pc' = "returned"
    /\ UNCHANGED <<reference_segments, target_segments, g_vars, p_vars, e_vars,
                   v_vars>>

MaxMatchSegs == 2

\* 500 is a reference value; 450 and 550 are threshold away from it, 508 is
\* near it, 510 is as far from 500 as from 520, 700 is far from everything
MatchReferences ==
    { << Line(500, 500, 500, 500) >>,
      << Line(500, 500, 520, 500) >>,
      << Line(520, 500, 500, 500) >>,
      << Line(520, 700, 500, 500) >> }

MatchXs == {450, 508, 510, 700}

MatchYs == {500, 550}

MatchSegs ==
    { Line(x1, y1, x2, y2) : x1 \in MatchXs, y1 \in MatchYs,
                             x2 \in MatchXs, y2 \in MatchYs }

\* the keys a segment must have
CoordinateKeys == {"x1", "y1", "x2", "y2"}

\* the segment without one of its keys
WithoutKey(seg, key) == [k \in (DOMAIN seg) \ {key} |-> seg[k]]

\* a wall near the reference, whole and with one key missing
MatchWall == Line(508, 500, 700, 550)

MatchMalformed == { WithoutKey(MatchWall, key) : key \in CoordinateKeys }

\* well-formed lists, and lists in which a segment lacks a key
MatchTargets ==
    UNION {[1..n -> MatchSegs] : n \in 1..MaxMatchSegs}
        \cup { <<bad>> : bad \in MatchMalformed }
        \cup { <<bad, MatchWall>> : bad \in MatchMalformed }
        \cup { <<MatchWall, bad>> : bad \in MatchMalformed }

(***************************************************************************)
(* SegmentFuser: src/vectorize.py                                          *)
(*                                                                         *)
(* A line is the list [x1, y1, x2, y2]: a tuple whose items 1..4 are the   *)
(* items 0..3 of the Python list.                                          *)
(***************************************************************************)

\* lines 7-10
MERGE_ALIGN_TOL == 20

MERGE_GAP_TOL == 50

STITCH_GAP_TOL == 60

STITCH_ALIGN_TOL == 10

Min2(a, b) == IF a <= b THEN a ELSE b

Max2(a, b) == IF a >= b THEN a ELSE b

\* lines 46 and 74: the item that holds the perpendicular position
idx_align(orientation) == IF orientation = "horizontal" THEN 2 ELSE 1

\* lines 47 and 75: the item that holds the start of the span
idx_start(orientation) == IF orientation = "horizontal" THEN 1 ELSE 2

\* the order of Python tuples of integers of one length
RECURSIVE LexLess(_, _)
LexLess(a, b) ==
    /\ a # <<>>
    /\ \/ Head(a) < Head(b)
       \/ (Head(a) = Head(b) /\ LexLess(Tail(a), Tail(b)))

\* list.sort(key=...) is stable: an item goes behind the items whose key is
\* not greater than its own.  An item is [key, val].
RECURSIVE InsertByKey(_, _)
InsertByKey(sorted, item) ==
    The({IF done = <<>> THEN <<new>>
         ELSE IF LexLess(new.key, Head(done).key) THEN <<new>> \o done
         ELSE <<Head(done)>> \o InsertByKey(Tail(done), new)
           : done \in {sorted}, new \in {item}})

RECURSIVE SortByKey(_)
SortByKey(items) ==
    The({IF list = <<>> THEN <<>>
         ELSE InsertByKey(SortByKey(SubSeq(list, 1, Len(list) - 1)), list[Len(list)])
           : list \in {items}})

Vals(items) == [i \in 1..Len(items) |-> items[i].val]

\* list.pop(i) leaves this list (i counted from 1)
WithoutItem(list, i) == SubSeq(list, 1, i - 1) \o SubSeq(list, i + 1, Len(list))

\* lines 58-59: the span of a line
SpanStart(line, orientation) ==
    Min2(line[idx_start(orientation)], line[idx_start(orientation) + 2])

SpanEnd(line, orientation) ==
    Max2(line[idx_start(orientation)], line[idx_start(orientation) + 2])

\* lines 56-60: the test under which cand is merged into current
MergeCondition(current, cand, orientation) ==
    /\ Abs(current[idx_align(orientation)] - cand[idx_align(orientation)])
          <= MERGE_ALIGN_TOL
    /\ SpanEnd(current, orientation) + MERGE_GAP_TOL >= SpanStart(cand, orientation)
    /\ SpanEnd(cand, orientation) + MERGE_GAP_TOL >= SpanStart(current, orientation)

\* lines 61-65
MergedLine(current, cand, orientation) ==
    LET new_start == Min2(SpanStart(current, orientation), SpanStart(cand, orientation))
        new_end == Max2(SpanEnd(current, orientation), SpanEnd(cand, orientation))
        new_pos == (current[idx_align(orientation)] + cand[idx_align(orientation)]) \div 2
    IN  IF orientation = "horizontal"
        THEN <<new_start, new_pos, new_end, new_pos>>
        ELSE <<new_pos, new_start, new_pos, new_end>>

\* lines 53-68: the inner loop; a merged candidate is popped and i stays
RECURSIVE MergeScan(_, _, _, _)
MergeScan(current, norm_lines, i, orientation) ==
    IF i > Len(norm_lines) THEN [current |-> current, norm_lines |-> norm_lines]
    ELSE IF MergeCondition(current, norm_lines[i], orientation)
         THEN MergeScan(MergedLine(current, norm_lines[i], orientation),
                        WithoutItem(norm_lines, i), i, orientation)
         ELSE MergeScan(current, norm_lines, i + 1, orientation)

\* lines 51-69: the outer loop
RECURSIVE MergeLoop(_, _)
MergeLoop(norm_lines, orientation) ==
    IF norm_lines = <<>> THEN <<>>
    ELSE LET scanned == MergeScan(Head(norm_lines), Tail(norm_lines), 1, orientation)
         IN  <<scanned.current>> \o MergeLoop(scanned.norm_lines, orientation)

\* lines 43-70
merge_parallel_lines(in, orientation) ==
    IF in = <<>> THEN <<>>
    ELSE MergeLoop(
            Vals(SortByKey([i \in 1..Len(in) |->
                   [key |-> <<in[i][idx_align(orientation)],
                              in[i][idx_start(orientation)]>>,
                    val |-> in[i]]])),
            orientation)

\* one call of merge_parallel_lines
MergeParallelLines ==
    /\ f_pc = "call"
    /\ f_call = "merge_parallel_lines"
    /\ f_result' = merge_parallel_lines(f_lines, f_orientation)
    /\ f_pc' = "returned"
    /\ UNCHANGED <<f_call, f_lines, f_orientation, w_vars, c_vars,
                   g_vars, p_vars, e_vars, m_vars>>

\* a line of the orientation class at perpendicular position pos from a to b
\* (lines 306 and 309 give both ends one position)
OrthoLine(orientation, pos, a, b) ==
    IF orientation = "horizontal" THEN <<a, pos, b, pos>> ELSE <<pos, a, pos, b>>

Orientations == {"horizontal", "vertical"}

MaxMergeLines == 3

\* detections of one wall edge and of its neighbours: [pos, a, b]
MergeCatalog ==
    { <<0, 0, 10>>, <<0, 110, 100>>, <<5, 40, 70>>, <<20, 0, 30>>,
      <<21, 60, 90>>, <<41, 0, 10>>, <<5, 120, 160>> }

MergeInputs(orientation) ==
    UNION { [1..n -> { OrthoLine(orientation, c[1], c[2], c[3]) : c \in MergeCatalog }]
              : n \in 0..MaxMergeLines }

\* lines 82-86: the indices behind i that join the bucket of line i
RECURSIVE BucketMembers(_, _, _, _, _)
BucketMembers(in, orientation, processed, i, j) ==
    IF j > Len(in) THEN <<>>
    ELSE (IF j \notin processed
             /\ Abs(in[i][idx_align(orientation)] - in[j][idx_align(orientation)])
                   < STITCH_ALIGN_TOL
          THEN <<j>> ELSE <<>>)
         \o BucketMembers(in, orientation, processed, i, j + 1)

\* lines 76-87: buckets, as lists of indices into the argument
RECURSIVE BucketScan(_, _, _, _)
BucketScan(in, orientation, processed, i) ==
    IF i > Len(in) THEN <<>>
    ELSE IF i \in processed THEN BucketScan(in, orientation, processed, i + 1)
    ELSE LET bucket == <<i>> \o BucketMembers(in, orientation, processed, i, i + 1)
         IN  <<bucket>>
             \o BucketScan(in, orientation,
                           processed \cup {bucket[k] : k \in 1..Len(bucket)}, i + 1)

Buckets(in, orientation) == BucketScan(in, orientation, {}, 1)

\* int(x) of a quotient of integers: the fraction is cut off
IntOfQuotient(n, d) == IF n >= 0 THEN n \div d ELSE -((-n) \div d)

\* lines 106-108 and 113-115: the running span becomes a line
RunLine(c_min, c_max, avg_pos, count, orientation) ==
    OrthoLine(orientation, IntOfQuotient(avg_pos, count), c_min, c_max)

\* a run whose start is compared with the running end alone
JoinsRunNoGap(n_min, c_max) == n_min <= c_max

\* line 101
JoinsRun(n_min, c_max) == n_min <= c_max + STITCH_GAP_TOL

\* lines 97-115: the loop over a sorted bucket from item k on
RECURSIVE StitchRun(_, _, _, _, _, _, _)
StitchRun(bucket, k, c_min, c_max, avg_pos, count, orientation) ==
    IF k > Len(bucket)
    THEN <<RunLine(c_min, c_max, avg_pos, count, orientation)>>
    ELSE LET next_l == bucket[k]
             n_min == SpanStart(next_l, orientation)
             n_max == SpanEnd(next_l, orientation)
         IN  IF JoinsRun(n_min, c_max)
             THEN StitchRun(bucket, k + 1, c_min, Max2(c_max, n_max),
                            avg_pos + next_l[idx_align(orientation)], count + 1,
                            orientation)
             ELSE <<RunLine(c_min, c_max, avg_pos, count, orientation)>>
                  \o StitchRun(bucket, k + 1, n_min, n_max,
                               next_l[idx_align(orientation)], 1, orientation)

\* lines 90-115: the lines a bucket (a list of lines) gives
StitchBucket(bucket, orientation) ==
    LET sorted == Vals(SortByKey([k \in 1..Len(bucket) |->
                        [key |-> <<SpanStart(bucket[k], orientation)>>,
                         val |-> bucket[k]]]))
    IN  StitchRun(sorted, 2, SpanStart(sorted[1], orientation),
                  SpanEnd(sorted[1], orientation),
                  sorted[1][idx_align(orientation)], 1, orientation)

BucketLines(in, bucket) == [k \in 1..Len(bucket) |-> in[bucket[k]]]

RECURSIVE StitchAll(_, _, _)
StitchAll(in, buckets, orientation) ==
    IF buckets = <<>> THEN <<>>
    ELSE StitchBucket(BucketLines(in, Head(buckets)), orientation)
         \o StitchAll(in, Tail(buckets), orientation)

\* lines 72-116
stitch_sequential_lines(in, orientation) ==
    IF in = <<>> THEN <<>>
    ELSE StitchAll(in, Buckets(in, orientation), orientation)

\* one call of stitch_sequential_lines
StitchSequentialLines ==
    /\ f_pc = "call"
    /\ f_call = "stitch_sequential_lines"
    /\ f_result' = stitch_sequential_lines(f_lines, f_orientation)
    /\ f_pc' = "returned"
    /\ UNCHANGED <<f_call, f_lines, f_orientation, w_vars, c_vars,
                   g_vars, p_vars, e_vars, m_vars>>

MaxStitchLines == 3

\* segments of three neighbouring positions (0, 8, 16), gaps of 60 and of
\* 61, a reversed segment, a long segment and a far position: [pos, a, b]
StitchCatalog ==
    { <<0, 0, 10>>, <<8, 70, 100>>, <<16, 71, 90>>, <<0, 161, 200>>,
      <<8, 20, 5>>, <<30, 0, 50>>, <<16, 0, 300>> }

StitchInputs(orientation) ==
    UNION { [1..n -> { OrthoLine(orientation, c[1], c[2], c[3]) : c \in StitchCatalog }]
              : n \in 0..MaxStitchLines }

\* lines 13-14
PATH_WIDTH_TOL == 40

PATH_GAP_TOL == 100

\* the two ends of a line
P1(line) == <<line[1], line[2]>>

P2(line) == <<line[3], line[4]>>

\* the square of math.hypot(p - q)
SqDist(p, q) == (p[1] - q[1]) * (p[1] - q[1]) + (p[2] - q[2]) * (p[2] - q[2])

SqLength(line) == SqDist(P1(line), P2(line))

BigLess(a, b) == ~BigLeq(b, a)

BigSq(n) == The({BigMul(v, v) : v \in {BigOf(Abs(n))}})

\* lines 28-32: get_line_params gives the angle of the direction in
\* [0, 180]; this is the direction turned into the upper half plane, which
\* has that angle (a line without length has angle 0)
Direction(line) ==
    LET dx == line[3] - line[1]
        dy == line[4] - line[2]
    IN  IF dy < 0 THEN <<-dx, -dy>>
        ELSE IF dx = 0 /\ dy = 0 THEN <<1, 0>>
        ELSE <<dx, dy>>

\* tan(angle) = c / d with c >= 0 and d > 0: is the angle <= 15 degrees?
\* tan(2 * angle) <= tan(30) = 1 / sqrt(3), written without a root:
\* 14 c^2 d^2 <= d^4 + c^4 and c < d
AtMost15(c, d) ==
    /\ c < d
    /\ \E cc \in {BigSq(c)}, dd \in {BigSq(d)} :
          BigLeq(BigMul(BigOf(14), BigMul(cc, dd)),
                 BigAdd(BigMul(dd, dd), BigMul(cc, cc)))

\* tan(angle) = c / d with c >= 0 and d > 0: is the angle < 10 degrees?
\* tan(3 * angle) < tan(30), written without a root:
\* 33 c^2 d^4 + 3 c^6 < d^6 + 27 c^4 d^2 and 3 c^2 < d^2
Below10(c, d) ==
    \E cc \in {BigSq(c)}, dd \in {BigSq(d)} :
        /\ BigLess(BigMul(BigOf(3), cc), dd)
        /\ BigLess(BigAdd(BigMul(BigOf(33), BigMul(cc, BigMul(dd, dd))),
                          BigMul(BigOf(3), BigMul(cc, BigMul(cc, cc)))),
                   BigAdd(BigMul(dd, BigMul(dd, dd)),
                          BigMul(BigOf(27), BigMul(BigMul(cc, cc), dd))))

\* lines 140-144: diff = abs(angle_base - angle_cand) is the angle between
\* the two directions; a cand passes when diff <= 15 or diff > 170
AngleClose(base, cand) ==
    \E u \in {Direction(base)}, v \in {Direction(cand)} :
        \E dot \in {u[1] * v[1] + u[2] * v[2]},
           cross \in {Abs(u[1] * v[2] - u[2] * v[1])} :
            \/ dot > 0 /\ AtMost15(cross, dot)
            \/ dot < 0 /\ Below10(cross, -dot)

\* lines 22-26 with the test of line 149: get_dist_point_to_line < PATH_WIDTH_TOL
NearLine(p, base) ==
    \E mag \in {SqLength(base)} :
        IF mag = 0 THEN SqDist(p, P1(base)) < PATH_WIDTH_TOL * PATH_WIDTH_TOL
        ELSE \E val \in {(base[4] - base[2]) * p[1] - (base[3] - base[1]) * p[2]
                            + base[3] * base[2] - base[4] * base[1]} :
                BigLess(BigSq(val),
                        BigMul(BigOf(PATH_WIDTH_TOL * PATH_WIDTH_TOL), BigOf(mag)))

\* lines 150-154: the smallest distance between an end of cand and an end
\* of base is below PATH_GAP_TOL
NearEnd(base, cand) ==
    \E p \in {P1(cand), P2(cand)}, q \in {P1(base), P2(base)} :
        SqDist(p, q) < PATH_GAP_TOL * PATH_GAP_TOL

\* lines 138-154: cand goes into the cluster of base
ClusterJoin(base, cand) ==
    /\ AngleClose(base, cand)
    /\ NearLine(P1(cand), base)
    /\ NearLine(P2(cand), base)
    /\ NearEnd(base, cand)

\* lines 136-158: the indices from j on that join the cluster of line i
RECURSIVE ClusterMembers(_, _, _, _)
ClusterMembers(sorted, used, i, j) ==
    The({ IF n > Len(list) THEN <<>>
          ELSE (IF n \notin taken /\ ClusterJoin(base, list[n]) THEN <<n>> ELSE <<>>)
               \o ClusterMembers(list, taken, i, n + 1)
            : list \in {sorted}, taken \in {used}, base \in {sorted[i]}, n \in {j} })

\* lines 134 and 155-156
RECURSIVE ClusterPoints(_, _)
ClusterPoints(sorted, members) ==
    IF members = <<>> THEN <<>>
    ELSE <<P1(sorted[Head(members)]), P2(sorted[Head(members)])>>
         \o ClusterPoints(sorted, Tail(members))

\* lines 161-169: the first pair, in loop order, at the greatest distance
FarthestPair(cluster_pts) ==
    The({ IF max_d = 0 THEN <<pts[1][1], pts[1][2], pts[1][1], pts[1][2]>>
          ELSE The({ The({ <<pts[first][1], pts[first][2],
                             pts[second][1], pts[second][2]>>
                           : second \in { SetMin({ b \in 1..Len(pts) :
                                 SqDist(pts[first], pts[b]) = max_d }) } })
                     : first \in { SetMin({ a \in 1..Len(pts) :
                           \E b \in 1..Len(pts) :
                               SqDist(pts[a], pts[b]) = max_d }) } })
            : pts \in {cluster_pts},
              max_d \in { SetMax({ SqDist(cluster_pts[a], cluster_pts[b])
                                     : a, b \in 1..Len(cluster_pts) }) } })

\* changed is set whether or not a candidate joined
MarksChangeAlways(members) == TRUE

\* line 158: changed = True when a candidate joins
MarksChange(members) == members # <<>>

\* lines 129-171: the loop over the sorted list from index i on
RECURSIVE PassFrom(_, _, _)
PassFrom(sorted, used, i) ==
    The({ IF n > Len(list) THEN [new_lines |-> <<>>, changed |-> FALSE]
          ELSE IF n \in taken THEN PassFrom(list, taken, n + 1)
          ELSE The({ The({ [new_lines |->
                              << IF members # <<>>
                                 THEN FarthestPair(<<P1(list[n]), P2(list[n])>>
                                                   \o ClusterPoints(list, members))
                                 ELSE list[n] >> \o rest.new_lines,
                            changed |-> MarksChange(members) \/ rest.changed]
                           : rest \in { PassFrom(list,
                                          taken \cup {n}
                                              \cup { members[k] : k \in 1..Len(members) },
                                          n + 1) } })
                     : members \in { ClusterMembers(list, taken, n, n + 1) } })
            : list \in {sorted}, taken \in {used}, n \in {i} })

\* line 127: the longest line first; lines of one length keep their order
SortByLength(list) ==
    Vals(SortByKey([i \in 1..Len(list) |->
            [key |-> << -SqLength(list[i]) >>, val |-> list[i]]]))

\* lines 124-172: one pass of the while loop
ClusterPass(list) == PassFrom(SortByLength(list), {}, 1)

\* line 120
WobbleReturnEmpty ==
    /\ w_pc = "call"
    /\ w_lines = <<>>
    /\ w_pc' = "returned"
    /\ UNCHANGED <<w_lines, current_lines, changed, w_passes, w_received,
                   f_vars, c_vars, g_vars, p_vars, e_vars, m_vars>>

\* lines 121-122: the coordinates become floats of the same value
WobbleBegin ==
    /\ w_pc = "call"
    /\ w_lines # <<>>
    /\ current_lines' = w_lines
    /\ changed' = TRUE
    /\ w_pc' = "loop"
    /\ UNCHANGED <<w_lines, w_passes, w_received,
                   f_vars, c_vars, g_vars, p_vars, e_vars, m_vars>>

\* lines 123-172: one pass
WobblePass ==
    /\ w_pc = "loop"
    /\ changed
    /\ \E pass \in {ClusterPass(current_lines)} :
          /\ current_lines' = pass.new_lines
          /\ changed' = pass.changed
    /\ w_received' = current_lines
    /\ w_passes' = w_passes + 1
    /\ UNCHANGED <<w_lines, w_pc, f_vars, c_vars, g_vars, p_vars, e_vars, m_vars>>

\* line 173: the loop is left; int() of a float that holds an integer
WobbleReturn ==
    /\ w_pc = "loop"
    /\ ~changed
    /\ w_pc' = "returned"
    /\ UNCHANGED <<w_lines, current_lines, changed, w_passes, w_received,
                   f_vars, c_vars, g_vars, p_vars, e_vars, m_vars>>

MaxWobbleLines == 3

\* diagonals as process_map_final classifies them (lines 304-311): three
\* collinear pieces on y = x, the outer two more than PATH_GAP_TOL apart,
\* a crossing line, a line at a small angle to y = x, a line at a large
\* angle to it and a far line
WobbleCatalog ==
    { <<0, 0, 40, 40>>, <<50, 50, 90, 90>>, <<150, 150, 190, 190>>,
      <<0, 60, 40, 20>>, <<10, 0, 60, 40>>, <<0, 100, 30, 160>>,
      <<300, 0, 340, 30>> }

WobbleInputs ==
    UNION { [1..n -> WobbleCatalog] : n \in 0..MaxWobbleLines }

(***************************************************************************)
(* CornerLocker: src/vectorize.py, steps 2 to 6 of process_map_final       *)
(***************************************************************************)

CORNER_SNAP_DIST == 45

DIAG_SNAP_DIST == 60

FUSE_DIST == 30

\* a line with one coordinate replaced (the lines are lists, changed in place)
SetAt(line, k, value) == [line EXCEPT ![k] = value]

\* the second coordinate is taken as the nearer one unless it is farther
NearerFirstFlipped(first, second, at) == Abs(first - at) > Abs(second - at)

\* lines 195 and 197: abs(vy1 - hy) < abs(vy2 - hy), abs(hx1 - vx) < abs(hx2 - vx)
NearerFirst(first, second, at) == Abs(first - at) < Abs(second - at)

\* lines 185-209: one vertical v, with the span vy1..vy2 it had when its
\* turn began, against one horizontal h; gives v, h and the point to lock
ConnectPair(v, vy1, vy2, h) ==
    LET vx == v[1]
        hx1 == Min2(h[1], h[3])
        hx2 == Max2(h[1], h[3])
        hy == h[2]
        v_near_h == Abs(vy1 - hy) < CORNER_SNAP_DIST \/ Abs(vy2 - hy) < CORNER_SNAP_DIST
        h_near_v == Abs(hx1 - vx) < CORNER_SNAP_DIST \/ Abs(hx2 - vx) < CORNER_SNAP_DIST
        v_in_h == hx1 - 10 <= vx /\ vx <= hx2 + 10
        h_in_v == vy1 - 10 <= hy /\ hy <= vy2 + 10
        v_moved == IF NearerFirst(vy1, vy2, hy) THEN SetAt(v, 2, hy)
                                                ELSE SetAt(v, 4, hy)
        h_moved == IF NearerFirst(hx1, hx2, vx) THEN SetAt(h, 1, vx)
                                                ELSE SetAt(h, 3, vx)
    IN  IF v_near_h /\ h_near_v
        THEN [v |-> v_moved, h |-> h_moved, snap_pt |-> {<<vx, hy>>}]
        ELSE IF v_near_h /\ v_in_h
        THEN [v |-> v_moved, h |-> h, snap_pt |-> {<<vx, hy>>}]
        ELSE IF h_near_v /\ h_in_v
        THEN [v |-> v, h |-> h_moved, snap_pt |-> {<<vx, hy>>}]
        ELSE [v |-> v, h |-> h, snap_pt |-> {}]

\* lines 184-212: the loop over the horizontals from index j on
RECURSIVE ConnectHorizontals(_, _, _, _, _, _)
ConnectHorizontals(v, vy1, vy2, horzs, locked_points, j) ==
    IF j > Len(horzs) THEN [v |-> v, horzs |-> horzs, locked_points |-> locked_points]
    ELSE LET pair == ConnectPair(v, vy1, vy2, horzs[j])
         IN  ConnectHorizontals(pair.v, vy1, vy2, [horzs EXCEPT ![j] = pair.h],
                                locked_points \cup pair.snap_pt, j + 1)

\* lines 182-212: the loop over the verticals from index i on
RECURSIVE ConnectVerticals(_, _, _, _)
ConnectVerticals(verts, horzs, locked_points, i) ==
    IF i > Len(verts)
    THEN [verts |-> verts, horzs |-> horzs, locked_points |-> locked_points]
    ELSE LET v == verts[i]
             row == ConnectHorizontals(v, Min2(v[2], v[4]), Max2(v[2], v[4]),
                                       horzs, locked_points, 1)
         IN  ConnectVerticals([verts EXCEPT ![i] = row.v], row.horzs,
                              row.locked_points, i + 1)

connect_corners_vh_and_lock(verticals, horizontals) ==
    ConnectVerticals(verticals, horizontals, {}, 1)

\* line 320: step 2
ConnectCornersAndLock ==
    /\ c_pc = "connect"
    /\ \E r \in {connect_corners_vh_and_lock(final_v, final_h)} :
          /\ final_v' = r.verts
          /\ final_h' = r.horzs
          /\ locked_set' = r.locked_points
    /\ c_pc' = "diagonals"
    /\ UNCHANGED <<others, final_o, all_lines, f_vars, w_vars,
                   g_vars, p_vars, e_vars, m_vars>>

\* lines 119-173: the list merge_diagonals_wobble returns
RECURSIVE WobbleLoop(_)
WobbleLoop(list) ==
    The({ IF pass.changed THEN WobbleLoop(pass.new_lines) ELSE pass.new_lines
            : pass \in {ClusterPass(list)} })

merge_diagonals_wobble(lines_in) ==
    IF lines_in = <<>> THEN <<>> ELSE WobbleLoop(lines_in)

\* line 323: step 3
MergeDiagonals ==
    /\ c_pc = "diagonals"
    /\ final_o' = merge_diagonals_wobble(others)
    /\ c_pc' = "snap_diagonals"
    /\ UNCHANGED <<others, final_v, final_h, locked_set, all_lines, f_vars, w_vars,
                   g_vars, p_vars, e_vars, m_vars>>

\* lines 225-234: the locked points an end of a diagonal can be moved to.
\* The loop keeps the first of the nearest points below DIAG_SNAP_DIST in
\* the iteration order of the set, which the language leaves open
EndChoices(p, locked) ==
    LET near == { lp \in locked : SqDist(p, lp) < DIAG_SNAP_DIST * DIAG_SNAP_DIST }
    IN  IF near = {} THEN {p}
        ELSE { lp \in near : \A q \in near : SqDist(p, lp) <= SqDist(p, q) }

\* lines 223-234: the lists snap_diagonal_ends_to_locked_corners can leave
RECURSIVE snap_diagonal_ends_to_locked_corners(_, _)
snap_diagonal_ends_to_locked_corners(diagonals, locked) ==
    IF diagonals = <<>> THEN { <<>> }
    ELSE { << <<a[1], a[2], b[1], b[2]>> >> \o rest :
             a \in EndChoices(P1(Head(diagonals)), locked),
             b \in EndChoices(P2(Head(diagonals)), locked),
             rest \in snap_diagonal_ends_to_locked_corners(Tail(diagonals), locked) }

\* line 326: step 4
SnapDiagonalEnds ==
    /\ c_pc = "snap_diagonals"
    /\ final_o' \in snap_diagonal_ends_to_locked_corners(final_o, locked_set)
    /\ c_pc' = "snap_free"
    /\ UNCHANGED <<others, final_v, final_h, locked_set, all_lines, f_vars, w_vars,
                   g_vars, p_vars, e_vars, m_vars>>

\* lines 216-219
is_locked(pt, locked) ==
    \E lp \in locked : Abs(pt[1] - lp[1]) < 5 /\ Abs(pt[2] - lp[2]) < 5

\* lines 34-40: the crossing of the two unbounded lines as the fractions
\* xn / den and yn / den with den > 0; no crossing for parallel lines
get_intersection(l1, l2) ==
    LET denom == (l2[4] - l2[2]) * (l1[3] - l1[1]) - (l2[3] - l2[1]) * (l1[4] - l1[2])
        ua == (l2[3] - l2[1]) * (l1[2] - l2[2]) - (l2[4] - l2[2]) * (l1[1] - l2[1])
        sign == IF denom < 0 THEN -1 ELSE 1
    IN  IF denom = 0 THEN {}
        ELSE { [xn |-> sign * (l1[1] * denom + ua * (l1[3] - l1[1])),
                yn |-> sign * (l1[2] * denom + ua * (l1[4] - l1[2])),
                den |-> sign * denom] }

\* line 249: the square of the distance from (ox, oy) to the crossing, as the
\* fraction num / den
SqDistTo(ox, oy, inter) ==
    [num |-> BigAdd(BigSq(ox * inter.den - inter.xn), BigSq(oy * inter.den - inter.yn)),
     den |-> BigSq(inter.den)]

\* line 250: dist < best_dist
Nearer(dist, best_dist) ==
    BigLess(BigMul(dist.num, best_dist.den), BigMul(best_dist.num, dist.den))

\* lines 251-253: the crossing lies in the box of d widened by 20
InBox(inter, d) ==
    /\ (Min2(d[1], d[3]) - 20) * inter.den <= inter.xn
    /\ inter.xn <= (Max2(d[1], d[3]) + 20) * inter.den
    /\ (Min2(d[2], d[4]) - 20) * inter.den <= inter.yn
    /\ inter.yn <= (Max2(d[2], d[4]) + 20) * inter.den

\* lines 245-255: the loop over the diagonals from index k on; best_int is
\* empty or holds the point found
RECURSIVE BestCrossing(_, _, _, _, _, _, _)
BestCrossing(o, ox, oy, diagonals, k, best_dist, best_int) ==
    IF k > Len(diagonals) THEN best_int
    ELSE LET found == { inter \in get_intersection(o, diagonals[k]) :
                           /\ Nearer(SqDistTo(ox, oy, inter), best_dist)
                           /\ InBox(inter, diagonals[k]) }
         IN  IF found = {}
             THEN BestCrossing(o, ox, oy, diagonals, k + 1, best_dist, best_int)
             ELSE LET inter == The(found)
                  IN  BestCrossing(o, ox, oy, diagonals, k + 1,
                                   SqDistTo(ox, oy, inter),
                                   { <<IntOfQuotient(inter.xn, inter.den),
                                       IntOfQuotient(inter.yn, inter.den)>> })

\* lines 239-257: one end of o, i = 1 for the start and 3 for the end
SnapFreeEnd(o, i, diagonals, locked) ==
    IF is_locked(<<o[i], o[i + 1]>>, locked) THEN o
    ELSE LET best_int == BestCrossing(o, o[i], o[i + 1], diagonals, 1,
                                      [num |-> BigOf(DIAG_SNAP_DIST * DIAG_SNAP_DIST),
                                       den |-> BigOf(1)], {})
         IN  IF best_int = {} THEN o
             ELSE [o EXCEPT ![i] = The(best_int)[1], ![i + 1] = The(best_int)[2]]

\* lines 237-257
snap_free_vh_to_diagonal(orthos, diagonals, locked) ==
    [ n \in 1..Len(orthos) |->
        SnapFreeEnd(SnapFreeEnd(orthos[n], 1, diagonals, locked), 3, diagonals, locked) ]

\* line 329: step 5; the list final_v + final_h holds the lines of final_v
\* and final_h themselves
SnapFreeVhToDiagonal ==
    /\ c_pc = "snap_free"
    /\ \E orthos \in {snap_free_vh_to_diagonal(final_v \o final_h, final_o, locked_set)} :
          /\ final_v' = SubSeq(orthos, 1, Len(final_v))
          /\ final_h' = SubSeq(orthos, Len(final_v) + 1, Len(orthos))
    /\ c_pc' = "fuse"
    /\ UNCHANGED <<others, final_o, locked_set, all_lines, f_vars, w_vars,
                   g_vars, p_vars, e_vars, m_vars>>

\* lines 263-265: entry m of points is an end of line idx
PointIdx(m) == (m + 1) \div 2

\* pos 0 is the start, at list positions 1 and 2; pos 1 the end, at 3 and 4
PointPos(m) == IF m % 2 = 1 THEN 1 ELSE 3

PointOf(ls, m) == <<ls[PointIdx(m)][PointPos(m)], ls[PointIdx(m)][PointPos(m) + 1]>>

\* lines 283-286 and 289-292
MovePoint(ls, m, x, y) ==
    [ls EXCEPT ![PointIdx(m)] = [@ EXCEPT ![PointPos(m)] = x, ![PointPos(m) + 1] = y]]

\* lines 267-292: the pairs from (i, j) on; the entries of points always
\* hold what the lines hold
RECURSIVE FuseFrom(_, _, _)
FuseFrom(ls, i, j) ==
    IF i > 2 * Len(ls) THEN ls
    ELSE IF j > 2 * Len(ls) THEN FuseFrom(ls, i + 1, i + 2)
    ELSE LET p1 == PointOf(ls, i)
             p2 == PointOf(ls, j)
             avg_x == (p1[1] + p2[1]) \div 2
             avg_y == (p1[2] + p2[2]) \div 2
         IN  IF PointIdx(i) # PointIdx(j) /\ SqDist(p1, p2) < FUSE_DIST * FUSE_DIST
             THEN FuseFrom(MovePoint(MovePoint(ls, i, avg_x, avg_y), j, avg_x, avg_y),
                           i, j + 1)
             ELSE FuseFrom(ls, i, j + 1)

fuse_close_endpoints(ls) == FuseFrom(ls, 1, 2)

\* lines 332-333: step 6; the lines of all_lines are the lines of final_v,
\* final_h and final_o themselves
FuseCloseEndpoints ==
    /\ c_pc = "fuse"
    /\ \E fused \in {fuse_close_endpoints(final_v \o final_h \o final_o)} :
          /\ all_lines' = fused
          /\ final_v' = SubSeq(fused, 1, Len(final_v))
          /\ final_h' = SubSeq(fused, Len(final_v) + 1, Len(final_v) + Len(final_h))
          /\ final_o' = SubSeq(fused, Len(final_v) + Len(final_h) + 1, Len(fused))
    /\ c_pc' = "done"
    /\ UNCHANGED <<others, locked_set, f_vars, w_vars, g_vars, p_vars, e_vars, m_vars>>

MaxCornerLines == 2

MaxCornerDiagonals == 1

\* lines 314-317: the lists the two passes of step 1 can give, here the
\* lists they leave as they are
FusedLists(catalog, orientation) ==
    { list \in UNION { [1..n -> catalog] : n \in 0..MaxCornerLines } :
        stitch_sequential_lines(merge_parallel_lines(list, orientation), orientation)
            = list }

\* a vertical that meets the end of the first horizontal, one 25 to its
\* right, one that stops short of the first horizontal from above, a far
\* one with a free end and one that crosses two horizontals
CornerVerticals ==
    FusedLists({ <<100, 100, 100, 200>>, <<125, 104, 125, 200>>,
                 <<50, 0, 50, 90>>, <<300, 0, 300, 60>>,
                 <<60, 60, 60, 160>> }, "vertical")

\* a horizontal that ends on the first vertical, one with a free end,
\* one that stops 4 short of the first vertical and one 3 below the first,
\* 65 to its right
CornerHorizontals ==
    FusedLists({ <<0, 100, 100, 100>>, <<130, 200, 250, 200>>,
                 <<0, 121, 96, 121>>, <<165, 103, 300, 103>> }, "horizontal")

\* lines 310-311: a diagonal that ends near the corner (100, 100) and two
\* that cross the line of a free end
CornerOthers ==
    UNION { [1..n -> { <<104, 96, 160, 40>>, <<260, 170, 290, 231>>,
                       <<300, 90, 340, 130>> }] : n \in 0..MaxCornerDiagonals }

MaxAngleLines == 2

\* lines at 1.9, 4.8, 19.3, 20.1 and 25 degrees from (0, 0), two that fall
\* by 4.8 and 7.6 degrees (175.2 and 172.4 after line 31) and one that
\* points to the left (180)
AngleCatalog ==
    { <<0, 0, 60, 2>>, <<0, 0, 60, 5>>, <<0, 0, 60, 21>>, <<0, 0, 60, 22>>,
      <<0, 0, 60, 28>>, <<0, 10, 60, 5>>, <<0, 10, 60, 2>>, <<60, 0, 0, 0>> }

AngleInputs == UNION { [1..n -> AngleCatalog] : n \in 0..MaxAngleLines }

(***************************************************************************)
(* Specifications                                                          *)
(***************************************************************************)

GridIdle == g_lines = <<>> /\ g_input = <<>> /\ g_runs = 0

PolyIdle ==
    /\ segments = <<>> /\ p_pc = "idle" /\ p_k = 0 /\ polygon_id = 0
    /\ assigned = {} /\ polygon_assignments = <<>> /\ queue = <<>>
    /\ output_segments = <<>>

ExtIdle ==
    /\ lines_data = <<>> /\ lines = <<>> /\ e_pc = "idle" /\ iteration = 0
    /\ free_endpoints = <<>> /\ e_k = 0 /\ modifications_this_iteration = 0
    /\ e_pass_lines = <<>> /\ e_last = <<>>

MatchIdle ==
    /\ reference_segments = <<>> /\ target_segments = <<>> /\ m_pc = "idle"
    /\ modified_segments = <<>> /\ snap_stats = <<>>

FuserIdle ==
    /\ f_call = "" /\ f_lines = <<>> /\ f_orientation = "" /\ f_pc = "idle"
    /\ f_result = <<>>

WobbleIdle ==
    /\ w_lines = <<>> /\ current_lines = <<>> /\ changed = FALSE
    /\ w_pc = "idle" /\ w_passes = 0 /\ w_received = <<>>

CornerIdle ==
    /\ others = <<>>
    /\ final_v = <<>> /\ final_h = <<>> /\ final_o = <<>> /\ locked_set = {}
    /\ all_lines = <<>> /\ c_pc = "idle"

VecIdle == FuserIdle /\ WobbleIdle /\ CornerIdle

InitGrid ==
    /\ g_input \in GridInputs
    /\ g_lines = g_input
    /\ g_runs = 0
    /\ PolyIdle /\ ExtIdle /\ MatchIdle /\ VecIdle

NextGrid == GridAlign

SpecGrid == InitGrid /\ [][NextGrid]_vars

InitPoly ==
    /\ segments \in PolyInputs
    /\ p_pc = "outer" /\ p_k = 1 /\ polygon_id = 0
    /\ assigned = {} /\ polygon_assignments = <<>> /\ queue = <<>>
    /\ output_segments = <<>>
    /\ GridIdle /\ ExtIdle /\ MatchIdle /\ VecIdle

NextPoly ==
    \/ PolySkipStart
    \/ PolyBegin
    \/ PolyPopAssigned
    \/ PolyVisit
    \/ PolyEnd
    \/ PolyWrite

SpecPoly == InitPoly /\ [][NextPoly]_vars

InitExt ==
    /\ lines_data \in ExtInputs
    /\ lines = lines_data
    /\ e_pc = "pass" /\ iteration = 0
    /\ free_endpoints = <<>> /\ e_k = 0 /\ modifications_this_iteration = 0
    /\ e_pass_lines = lines_data /\ e_last = <<>>
    /\ GridIdle /\ PolyIdle /\ MatchIdle /\ VecIdle

NextExt ==
    \/ ExtReturnEmpty
    \/ ExtStartPass
    \/ ExtSkipOnLine
    \/ ExtSnapBack
    \/ ExtSnapFresh
    \/ ExtNoCandidate
    \/ ExtConverged
    \/ ExtNextPass
    \/ ExtReturnCap

SpecExt == InitExt /\ [][NextExt]_vars

\* extend_endpoints is one sequential call: a step that can be taken is taken
SpecExtFair == SpecExt /\ WF_vars(NextExt)

InitMatch ==
    /\ reference_segments \in MatchReferences
    /\ target_segments \in MatchTargets
    /\ m_pc = "call"
    /\ modified_segments = <<>> /\ snap_stats = <<>>
    /\ GridIdle /\ PolyIdle /\ ExtIdle /\ VecIdle

NextMatch == MatchCoordinates

SpecMatch == InitMatch /\ [][NextMatch]_vars

InitMerge ==
    /\ f_call = "merge_parallel_lines"
    /\ f_orientation \in Orientations
    /\ f_lines \in MergeInputs(f_orientation)
    /\ f_pc = "call"
    /\ f_result = <<>>
    /\ WobbleIdle /\ CornerIdle
    /\ GridIdle /\ PolyIdle /\ ExtIdle /\ MatchIdle

NextMerge == MergeParallelLines

SpecMerge == InitMerge /\ [][NextMerge]_vars

InitStitch ==
    /\ f_call = "stitch_sequential_lines"
    /\ f_orientation \in Orientations
    /\ f_lines \in StitchInputs(f_orientation)
    /\ f_pc = "call"
    /\ f_result = <<>>
    /\ WobbleIdle /\ CornerIdle
    /\ GridIdle /\ PolyIdle /\ ExtIdle /\ MatchIdle

NextStitch == StitchSequentialLines

SpecStitch == InitStitch /\ [][NextStitch]_vars

InitWobble ==
    /\ w_lines \in WobbleInputs
    /\ current_lines = <<>> /\ changed = FALSE
    /\ w_pc = "call" /\ w_passes = 0 /\ w_received = <<>>
    /\ FuserIdle /\ CornerIdle
    /\ GridIdle /\ PolyIdle /\ ExtIdle /\ MatchIdle

NextWobble == WobbleReturnEmpty \/ WobbleBegin \/ WobblePass \/ WobbleReturn

SpecWobble == InitWobble /\ [][NextWobble]_vars

\* merge_diagonals_wobble is one sequential call: a step that can be taken
\* is taken
SpecWobbleFair == SpecWobble /\ WF_vars(NextWobble)

InitCorner ==
    /\ others \in CornerOthers
    /\ final_v \in CornerVerticals
    /\ final_h \in CornerHorizontals
    /\ final_o = <<>>
    /\ locked_set = {}
    /\ all_lines = <<>>
    /\ c_pc = "connect"
    /\ FuserIdle /\ WobbleIdle
    /\ GridIdle /\ PolyIdle /\ ExtIdle /\ MatchIdle

NextCorner ==
    \/ ConnectCornersAndLock
    \/ MergeDiagonals
    \/ SnapDiagonalEnds
    \/ SnapFreeVhToDiagonal
    \/ FuseCloseEndpoints

SpecCorner == InitCorner /\ [][NextCorner]_vars

\* merge_diagonals_wobble called with two lines that lie close together
InitAngle ==
    /\ w_lines \in AngleInputs
    /\ current_lines = <<>> /\ changed = FALSE
    /\ w_pc = "call" /\ w_passes = 0 /\ w_received = <<>>
    /\ FuserIdle /\ CornerIdle
    /\ GridIdle /\ PolyIdle /\ ExtIdle /\ MatchIdle

SpecAngle == InitAngle /\ [][NextWobble]_vars

(***************************************************************************)
(* GridAligner: claims C1, C2, C3                                          *)
(***************************************************************************)

\* C1: GridAligner is idempotent: once the stage has run, running it again on
\* the list it wrote changes no coordinate of any segment (diagonal segments
\* that are outside the pools but inside a rule interval included).
C1_Idempotent == g_runs >= 1 => AlignAll(g_lines) = g_lines

\* C2: snap locality: a run of the stage moves no coordinate by more than
\* GLOBAL_ALIGN_THRESHOLD + 2, whatever the size of its cluster.
C2_SnapLocality ==
    g_runs = 1 =>
        \A i \in 1..Len(g_input) :
            /\ Abs(g_input[i].x1 - g_lines[i].x1) <= GLOBAL_ALIGN_THRESHOLD + 2
            /\ Abs(g_input[i].x2 - g_lines[i].x2) <= GLOBAL_ALIGN_THRESHOLD + 2
            /\ Abs(g_input[i].y1 - g_lines[i].y1) <= GLOBAL_ALIGN_THRESHOLD + 2
            /\ Abs(g_input[i].y2 - g_lines[i].y2) <= GLOBAL_ALIGN_THRESHOLD + 2

RECURSIVE SetSum(_)
SetSum(S) == IF S = {} THEN 0 ELSE LET e == CHOOSE x \in S : TRUE
                                   IN  e + SetSum(S \ {e})

\* The maximal run of pool around c: the values d of the pool such that every
\* value of the pool from the smaller of c, d up to (not including) the larger
\* has a successor in the pool at most 20 away.
RunOf(c, pool) ==
    {d \in pool :
        \A e \in pool :
            (e >= (IF c < d THEN c ELSE d) /\ e < (IF c < d THEN d ELSE c))
                => \E f \in pool : f > e /\ f - e <= 20}

RunTarget(c, pool) == PyRound(SetSum(RunOf(c, pool)), Cardinality(RunOf(c, pool)))

ClusterSets(coords) ==
    LET cl == Clusters(coords, GLOBAL_ALIGN_THRESHOLD)
    IN  {SeqRange(cl[k]) : k \in 1..Len(cl)}

\* C3: grid fusion: the clusters of get_snap_rules are exactly the maximal
\* runs of the pooled coordinates with consecutive gaps <= 20, a run of the
\* stage replaces every pooled coordinate by the rounded mean of its run, and
\* the two verticals at x = 100 and x = 108 both end at x1 = x2 = 104.
C3_GridFusion ==
    g_runs = 1 =>
        LET vx == VXCoords(g_input)
            hy == HYCoords(g_input)
        IN  /\ ClusterSets(vx) = {RunOf(c, vx) : c \in vx}
            /\ ClusterSets(hy) = {RunOf(c, hy) : c \in hy}
            /\ \A i \in 1..Len(g_input) :
                 Pooled(g_input[i]) =>
                    /\ g_lines[i].x1 = RunTarget(g_input[i].x1, vx)
                    /\ g_lines[i].x2 = RunTarget(g_input[i].x2, vx)
                    /\ g_lines[i].y1 = RunTarget(g_input[i].y1, hy)
                    /\ g_lines[i].y2 = RunTarget(g_input[i].y2, hy)
            /\ g_input = GridFusionScenario =>
                 \A i \in 1..2 : g_lines[i].x1 = 104 /\ g_lines[i].x2 = 104

C3_Witness ==
    /\ g_runs = 1
    /\ g_input = GridFusionScenario
    /\ g_lines[1].x1 = 104 /\ g_lines[1].x2 = 104
    /\ g_lines[2].x1 = 104 /\ g_lines[2].x2 = 104

(***************************************************************************)
(* GridAligner: claims C25, C26, C27                                       *)
(***************************************************************************)

\* the rules whose interval contains the coordinate v
MatchingRules(rules, v) ==
    {k \in 1..Len(rules) : rules[k].min <= v /\ v <= rules[k].max}

\* the coordinates of the segments and the ends and targets of the intervals
ProbeCoords(rules, ls) ==
    UNION {{ls[i].x1, ls[i].x2, ls[i].y1, ls[i].y2} : i \in 1..Len(ls)}
    \cup UNION {{rules[k].min, rules[k].max, rules[k].target} :
                   k \in 1..Len(rules)}

RulesDisjoint(rules, ls) ==
    /\ \A a \in 1..Len(rules) : \A b \in 1..Len(rules) :
          a < b => rules[a].max < rules[b].min
    /\ \A a \in 1..Len(rules) :
          rules[a].min <= rules[a].target /\ rules[a].target <= rules[a].max
    /\ \A v \in ProbeCoords(rules, ls) :
          Cardinality(MatchingRules(rules, v)) <= 1

\* C25: snap rules never overlap: the intervals [min-2, max+2] of the rules
\* get_snap_rules returns for a pool of coordinates and threshold 20 are
\* pairwise disjoint (in the order returned), every rule's target lies inside
\* its own interval, and every coordinate matches at most one rule.
C25_RulesDisjoint ==
    /\ RulesDisjoint(XRules(g_lines), g_lines)
    /\ RulesDisjoint(YRules(g_lines), g_lines)

\* a run of the stage built at least two x rules, one of them for a cluster
\* of several coordinates, and moved a coordinate
C25_Witness ==
    /\ g_runs = 1
    /\ Len(XRules(g_input)) >= 2
    /\ \E k \in 1..Len(XRules(g_input)) :
          XRules(g_input)[k].min + 2 < XRules(g_input)[k].max - 2
    /\ g_lines # g_input

C27_NoDegenerate ==
    [][\A i \in 1..Len(g_lines) :
          (<<g_lines[i].x1, g_lines[i].y1>> # <<g_lines[i].x2, g_lines[i].y2>>)
             => (<<g_lines'[i].x1, g_lines'[i].y1>>
                    # <<g_lines'[i].x2, g_lines'[i].y2>>)]_vars

(***************************************************************************)
(* PolygonGrouper: claims C4, C5, C6                                       *)
(***************************************************************************)

StairSet == {i \in 1..Len(segments) : segments[i].type = "stair"}

HasId(i) == "stair_polygon_id" \in DOMAIN output_segments[i]

IdOf(i) == output_segments[i].stair_polygon_id

\* two segments have an exactly equal (x, y) endpoint
SharesVertex(a, b) == {StartOf(a), EndOf(a)} \cap {StartOf(b), EndOf(b)} # {}

\* the stair segments joined to those of S by chains of stair segments in
\* which consecutive segments share a vertex
RECURSIVE StairClosure(_)
StairClosure(S) ==
    LET N == S \cup {j \in StairSet :
                        \E k \in S : SharesVertex(segments[k], segments[j])}
    IN  IF N = S THEN S ELSE StairClosure(N)

Component(i) == StairClosure({i})

\* C4: partition invariant: when group_stair_polygons has written its output,
\* every stair segment carries a stair_polygon_id, and two stair segments
\* carry the same id exactly when a chain of stair segments sharing exactly
\* equal endpoints joins them (so stairs joined only through walls differ and
\* a stair with no stair neighbour is alone in its group).
C4_Partition ==
    p_pc = "done" =>
        /\ \A i \in StairSet : HasId(i) /\ IdOf(i) \in Nat \ {0}
        /\ \A i \in StairSet : \A j \in StairSet :
              (IdOf(i) = IdOf(j)) <=> (j \in Component(i))

\* a chain: two stairs that share no vertex got the same id through a third
C4_Witness ==
    /\ p_pc = "done"
    /\ \E i \in StairSet : \E j \in StairSet :
          /\ ~SharesVertex(segments[i], segments[j])
          /\ IdOf(i) = IdOf(j)

ComponentSet == {Component(i) : i \in StairSet}

\* C5: discovery order: the ids in use are exactly 1..k for k connected
\* components of stair segments, a component whose smallest list index is
\* smaller has the smaller id, and the triangle listed first gets id 1 while
\* the later disjoint stair segment gets id 2.
C5_DiscoveryOrder ==
    p_pc = "done" =>
        /\ {IdOf(i) : i \in StairSet} = 1..Cardinality(ComponentSet)
        /\ \A i \in StairSet : \A j \in StairSet :
              SetMin(Component(i)) < SetMin(Component(j)) => IdOf(i) < IdOf(j)
        /\ segments = PolyScenario =>
              /\ IdOf(1) = 1 /\ IdOf(2) = 1 /\ IdOf(3) = 1
              /\ IdOf(4) = 2

C5_Witness ==
    /\ p_pc = "done"
    /\ segments = PolyScenario
    /\ IdOf(1) = 1 /\ IdOf(2) = 1 /\ IdOf(3) = 1 /\ IdOf(4) = 2

\* C6: frame condition: the output has the length and order of the input,
\* every segment keeps x1, y1, x2, y2 and type, the only key that may be new
\* is stair_polygon_id, and no segment that is not a stair receives one.
C6_Frame ==
    p_pc = "done" =>
        /\ Len(output_segments) = Len(segments)
        /\ \A i \in 1..Len(segments) :
              /\ output_segments[i].x1 = segments[i].x1
              /\ output_segments[i].y1 = segments[i].y1
              /\ output_segments[i].x2 = segments[i].x2
              /\ output_segments[i].y2 = segments[i].y2
              /\ output_segments[i].type = segments[i].type
              /\ DOMAIN output_segments[i]
                    \subseteq DOMAIN segments[i] \cup {"stair_polygon_id"}
              /\ segments[i].type # "stair" => ~HasId(i)

\* a wall that touches a grouped stair, and still has no id
C6_Witness ==
    /\ p_pc = "done"
    /\ \E i \in 1..Len(segments) : \E j \in StairSet :
          /\ segments[i].type = "wall"
          /\ SharesVertex(segments[i], segments[j])
          /\ HasId(j) /\ ~HasId(i)
          /\ output_segments[i] = segments[i]

\* the points that are the endpoint of exactly one segment-end
EndPoints(ls) ==
    {<<ls[i].x1, ls[i].y1>> : i \in 1..Len(ls)}
        \cup {<<ls[i].x2, ls[i].y2>> : i \in 1..Len(ls)}

Degree(ls, pt) ==
    Cardinality({i \in 1..Len(ls) : <<ls[i].x1, ls[i].y1>> = pt})
        + Cardinality({i \in 1..Len(ls) : <<ls[i].x2, ls[i].y2>> = pt})

FreeCount(ls) == Cardinality({pt \in EndPoints(ls) : Degree(ls, pt) = 1})

PassOver == e_pc = "endpoints" /\ e_k > Len(free_endpoints)

\* C7: when a pass of the extend_endpoints loop is over, the number of
\* distinct points that are the endpoint of exactly one segment-end is not
\* greater than it was when the pass began, although the free endpoints are
\* computed once and the segments are rewritten while the pass runs.
C7_MonotonicFreeCount ==
    PassOver => FreeCount(lines) <= FreeCount(e_pass_lines)

\* a pass that rewrote two ends and ended with fewer free endpoints
C7_Witness ==
    /\ PassOver
    /\ modifications_this_iteration >= 2
    /\ FreeCount(lines) < FreeCount(e_pass_lines)

Snapped == e_last # <<>> /\ e_last.branch \in {"crossed", "fresh"}

IsNearest(cands, i) ==
    \A j \in 1..Len(cands) : DistLeq(cands[i].dist, cands[j].dist)

EndOfLine(ls, entry) ==
    IF entry.position = "start"
    THEN <<ls[entry.line_idx].x1, ls[entry.line_idx].y1>>
    ELSE <<ls[entry.line_idx].x2, ls[entry.line_idx].y2>>

\* C8: whenever the snap-back branch or the fresh search has produced
\* candidate intersections for a free endpoint, the endpoint is then at the
\* (rounded) candidate whose distance from the endpoint is the smallest.
C8_ClosestWins ==
    Snapped =>
        \E i \in 1..Len(e_last.cands) :
            /\ IsNearest(e_last.cands, i)
            /\ e_last.new = Rounded(e_last.cands[i].pt)
            /\ EndOfLine(lines, e_last.entry) = e_last.new

DistIs(dist, px) == Within(dist, px) /\ ~Below(dist, px)

\* two candidates at 10px and 30px, the farther one found first, and the
\* endpoint moved
C8_Witness ==
    /\ Snapped
    /\ Len(e_last.cands) >= 2
    /\ DistIs(e_last.cands[1].dist, 30)
    /\ \E i \in 1..Len(e_last.cands) : DistIs(e_last.cands[i].dist, 10)
    /\ e_last.new # e_last.entry.pt

Returned(input) == e_pc = "done" /\ lines_data = input

\* C9 as stated: in the scenario the endpoint (48, 50) of the horizontal
\* wall is at (50, 50) in the returned list.
C9_ScenarioMoves ==
    /\ Returned(<< Line(0, 50, 48, 50), ScenarioWall >>)
          => <<lines[1].x2, lines[1].y2>> = <<50, 50>>
    /\ Returned(<< Line(48, 50, 100, 50), ScenarioWall >>)
          => <<lines[1].x1, lines[1].y1>> = <<50, 50>>

\* C9: in the scenario the endpoint (48, 50) is exactly tolerance away from
\* the line of the wall (50, 0)-(50, 100) and stays at (48, 50) in the
\* returned list; an endpoint at (47, 50) is at (50, 50) in the returned list.
C9_ScenarioStays ==
    /\ Returned(<< Line(0, 50, 48, 50), ScenarioWall >>)
          => <<lines[1].x2, lines[1].y2>> = <<48, 50>>
    /\ Returned(<< Line(48, 50, 100, 50), ScenarioWall >>)
          => <<lines[1].x1, lines[1].y1>> = <<48, 50>>
    /\ Returned(<< Line(0, 50, 47, 50), ScenarioWall >>)
          => <<lines[1].x2, lines[1].y2>> = <<50, 50>>
    /\ Returned(<< Line(47, 50, 100, 50), ScenarioWall >>)
          => <<lines[1].x1, lines[1].y1>> = <<50, 50>>

\* the scenario has run: other ends were rewritten, (48, 50) was not
C9_Witness ==
    /\ Returned(<< Line(0, 50, 48, 50), ScenarioWall >>)
    /\ lines # lines_data
    /\ <<lines[1].x2, lines[1].y2>> = <<48, 50>>

\* C11: extend_endpoints terminates; no pass begins once max_iterations
\* passes have run, the loop is left right after a pass without
\* modification, and when the cap is reached the list is returned as it is.
C11_Terminates ==
    /\ [](e_pc = "endpoints" => iteration < max_iterations)
    /\ [][(PassOver /\ modifications_this_iteration = 0) => e_pc' = "done"]_vars
    /\ [][(e_pc = "pass" /\ iteration >= max_iterations)
             => (e_pc' = "done" /\ lines' = lines)]_vars
    /\ <>(e_pc = "done")

\* the cap was reached without convergence and the call has returned
C11_Witness ==
    /\ e_pc = "done"
    /\ iteration = max_iterations
    /\ modifications_this_iteration > 0
    /\ lines # lines_data

\* the other segments whose crossing with the line of entry's segment lies on
\* them (within on_segment_tolerance) and within snap_distance of the endpoint
NearCrossings(ls, entry) ==
    { o \in 1..Len(ls) :
        /\ o # entry.line_idx
        /\ \E inter \in {line_intersection(ls[entry.line_idx], ls[o])} :
              /\ inter # <<>>
              /\ Within(distance_point_to_line_segment(inter[1], ls[o]),
                        on_segment_tolerance)
              /\ Within(distance_point_to_point(
                            IntPoint(entry.pt[1], entry.pt[2]), inter[1]),
                        snap_distance) }

\* the other segments whose line the endpoint has already passed
CrossedLines(ls, entry) ==
    { o \in 1..Len(ls) :
        /\ o # entry.line_idx
        /\ \E inter \in {line_intersection(ls[entry.line_idx], ls[o])} :
              /\ inter # <<>>
              /\ HasCrossed(ls[entry.line_idx], entry.pt[1], entry.pt[2],
                            inter[1]) }

\* the loop is at an item of free_endpoints
AtEndpoint == e_pc = "endpoints" /\ e_k <= Len(free_endpoints)

\* C13 as stated: a free endpoint without a crossing on another segment
\* within snap_distance keeps its coordinates when it is processed.
C13_NoNearCrossingKeeps ==
    [][(AtEndpoint /\ NearCrossings(lines, Entry) = {}) => lines' = lines]_vars

\* C13: a free endpoint that has not passed the line of another segment and
\* has no crossing on another segment within snap_distance keeps its
\* coordinates when it is processed, and the pass goes on to the next item.
C13_UnresolvedKeeps ==
    [][(AtEndpoint /\ CrossedLines(lines, Entry) = {}
                   /\ NearCrossings(lines, Entry) = {})
          => (lines' = lines /\ e_k' = e_k + 1 /\ e_pc' = "endpoints")]_vars

\* the call has returned, and the last endpoint of the last pass had its
\* only crossing farther away than snap_distance and stayed where it was
C13_Witness ==
    /\ e_pc = "done"
    /\ e_last # <<>>
    /\ e_last.branch = "none"
    /\ \E o \in 1..Len(lines) :
          /\ o # e_last.entry.line_idx
          /\ \E inter \in {line_intersection(lines[e_last.entry.line_idx], lines[o])} :
                /\ inter # <<>>
                /\ Within(distance_point_to_line_segment(inter[1], lines[o]),
                          on_segment_tolerance)
                /\ ~Within(distance_point_to_point(
                               IntPoint(e_last.entry.pt[1], e_last.entry.pt[2]),
                               inter[1]),
                           snap_distance)
    /\ EndOfLine(lines, e_last.entry) = e_last.entry.pt

\* line 27: denom of line_intersection for the pair (a, b)
Determinant(a, b) ==
    (a.x2 - a.x1) * (b.y2 - b.y1) - (a.y2 - a.y1) * (b.x2 - b.x1)

IsPoint(seg) == seg.x1 = seg.x2 /\ seg.y1 = seg.y2

\* the numbers extend_endpoints divides by while it processes entry against
\* the segment other: line 155 (projection), line 32 (line_intersection
\* returned a point), lines 196 and 203 (t_endpoint, t_intersection) and
\* line 60 (distance_point_to_line_segment)
DivisorsFor(cur, other) ==
    LET dx == other.x2 - other.x1
        dy == other.y2 - other.y1
        dx_current == cur.x2 - cur.x1
        dy_current == cur.y2 - cur.y1
        met == line_intersection(cur, other) # <<>>
    IN  (IF dx = 0 /\ dy = 0 THEN {} ELSE {dx * dx + dy * dy})
        \cup (IF met THEN {Determinant(cur, other)} ELSE {})
        \cup (IF ~met THEN {}
              ELSE IF Abs(dx_current) > Abs(dy_current)
                   THEN (IF dx_current # 0 THEN {dx_current} ELSE {})
                   ELSE (IF dy_current # 0 THEN {dy_current} ELSE {}))

Divisors(ls, entry) ==
    UNION { DivisorsFor(ls[entry.line_idx], ls[o]) :
               o \in (1..Len(ls)) \ {entry.line_idx} }

\* C15: while extend_endpoints processes a free endpoint it never divides by
\* zero, whatever zero-length, parallel or collinear segments the list holds,
\* and a pair whose determinant is 0 gives no candidate.
C15_DegenerateSkipped ==
    /\ [](AtEndpoint => 0 \notin Divisors(lines, Entry))
    /\ [][AtEndpoint =>
             \A i \in 1..Len(e_last'.cands) :
                 Determinant(lines[Entry.line_idx],
                             lines[e_last'.cands[i].other_idx]) # 0]_vars

\* the call has returned, and its last pass began with a zero-length segment
\* and a pair of parallel segments in the list and had a free endpoint to
\* process
C15_Witness ==
    /\ e_pc = "done"
    /\ e_last # <<>>
    /\ \E o \in 1..Len(e_pass_lines) : IsPoint(e_pass_lines[o])
    /\ \E a, b \in 1..Len(e_pass_lines) :
          /\ a # b /\ ~IsPoint(e_pass_lines[a]) /\ ~IsPoint(e_pass_lines[b])
          /\ Determinant(e_pass_lines[a], e_pass_lines[b]) = 0

\* the other segments whose line is within tolerance of the endpoint
LinesUnder(ls, entry) ==
    { o \in 1..Len(ls) :
        /\ o # entry.line_idx
        /\ OnLineOf(entry.pt[1], entry.pt[2], ls[o], tolerance) }

CandidateLines(cands) == { cands[i].other_idx : i \in 1..Len(cands) }

\* C16: for each free endpoint the on-line check is decided first, then the
\* already-crossed check, then the fresh search, and only the first branch
\* that is satisfied is taken: an endpoint on another line is left untouched
\* whatever it has crossed; otherwise an endpoint that has crossed lines is
\* put on one of those crossings and the crossed lines are its only
\* candidates; the fresh search is made only when both checks fail.
C16_BranchOrder ==
    [][AtEndpoint =>
         /\ LinesUnder(lines, Entry) # {}
               => (e_last'.branch = "on_line" /\ lines' = lines)
         /\ (LinesUnder(lines, Entry) = {} /\ CrossedLines(lines, Entry) # {})
               => /\ e_last'.branch = "crossed"
                  /\ CandidateLines(e_last'.cands) = CrossedLines(lines, Entry)
                  /\ EndOfLine(lines', Entry) = Rounded(Closest(e_last'.cands).pt)
         /\ (LinesUnder(lines, Entry) = {} /\ CrossedLines(lines, Entry) = {})
               => /\ e_last'.branch \in {"fresh", "none"}
                  /\ CandidateLines(e_last'.cands) = NearCrossings(lines, Entry)
       ]_vars

\* an endpoint that is on another segment's line and has crossed a different
\* line was processed and left where it was
C16_Witness ==
    /\ e_pc = "endpoints"
    /\ e_last # <<>>
    /\ e_last.branch = "on_line"
    /\ CrossedLines(lines, e_last.entry) \ LinesUnder(lines, e_last.entry) # {}
    /\ EndOfLine(lines, e_last.entry) = e_last.entry.pt

\* the ends of the list: line index and position
EndsOf(ls) == { [line_idx |-> i, position |-> p] :
                  i \in 1..Len(ls), p \in {"start", "end"} }

\* C17: when a pass of extend_endpoints is over, every segment end whose
\* point held two or more ends when the pass began is where it was; and the
\* list the caller passed in is never changed.
C17_OnlyFreeMoved ==
    /\ [](PassOver =>
            \A end \in EndsOf(lines) :
                Degree(e_pass_lines, EndOfLine(e_pass_lines, end)) >= 2
                    => EndOfLine(lines, end) = EndOfLine(e_pass_lines, end))
    /\ [][lines_data' = lines_data]_vars

\* a pass is over that moved a free end of a segment whose other end is on
\* a shared point, and the working list differs from the caller's list
C17_Witness ==
    /\ PassOver
    /\ lines # lines_data
    /\ \E end, other \in EndsOf(lines) :
          /\ end.line_idx = other.line_idx
          /\ EndOfLine(lines, end) # EndOfLine(e_pass_lines, end)
          /\ Degree(e_pass_lines, EndOfLine(e_pass_lines, other)) >= 2

(***************************************************************************)
(* Malformed input: claim C14                                              *)
(***************************************************************************)

WellFormed(segs) ==
    \A i \in 1..Len(segs) : CoordinateKeys \subseteq DOMAIN segs[i]

\* C14 (for CrossFloorMatcher): match_coordinates does not return a result
\* when a segment of its input lacks one of the keys x1, y1, x2, y2.
C14_MalformedFailsFast ==
    m_pc = "returned" =>
        (WellFormed(reference_segments) /\ WellFormed(target_segments))

(***************************************************************************)
(* CornerLocker: claim C12                                                 *)
(***************************************************************************)

\* the lines of the pipeline in the order of all_lines (line 332)
PipelineLines == final_v \o final_h \o final_o

\* the ends of line k that sit on a locked point
LockedEnds(k) ==
    { i \in {1, 3} : <<PipelineLines[k][i], PipelineLines[k][i + 1]>> \in locked_set }

\* C12: once connect_corners_vh_and_lock has returned the locked points, no
\* later step of the pipeline changes the coordinates of an end of a line
\* that sits on a locked point
C12_LockedNeverRelocated ==
    [][(c_pc \in {"diagonals", "snap_diagonals", "snap_free", "fuse"})
          => \A k \in 1..Len(PipelineLines) : \A i \in LockedEnds(k) :
                (PipelineLines'[k][i] = PipelineLines[k][i]
                 /\ PipelineLines'[k][i + 1] = PipelineLines[k][i + 1])]_vars

(***************************************************************************)
(* SegmentFuser: claims C18, C19, C20                                      *)
(***************************************************************************)

\* C18: in the list merge_parallel_lines returns, no two segments satisfy
\* the merge condition (perpendicular positions at most MERGE_ALIGN_TOL
\* apart and spans that overlap or lie within MERGE_GAP_TOL).
C18_NoMergeablePairLeft ==
    (f_call = "merge_parallel_lines" /\ f_pc = "returned") =>
        \A i, j \in 1..Len(f_result) :
            i # j => ~MergeCondition(f_result[i], f_result[j], f_orientation)

\* the indices of a bucket, and of the buckets before bucket b
BucketSet(bucket) == { bucket[k] : k \in 1..Len(bucket) }

EarlierBuckets(buckets, b) == UNION { BucketSet(buckets[a]) : a \in 1..(b - 1) }

Position(line, orientation) == line[idx_align(orientation)]

\* the span of line a lies inside the span of line b
SpanInside(a, b, orientation) ==
    /\ SpanStart(b, orientation) <= SpanStart(a, orientation)
    /\ SpanEnd(a, orientation) <= SpanEnd(b, orientation)

\* any two lines of the list are more than STITCH_GAP_TOL apart
GapsAbove(out, orientation) ==
    \A p, q \in 1..Len(out) :
        p < q => SpanStart(out[q], orientation)
                    > SpanEnd(out[p], orientation) + STITCH_GAP_TOL

StitchReturned == f_call = "stitch_sequential_lines" /\ f_pc = "returned"

\* C19 as stated: a bucket holds all the segments whose position is less
\* than STITCH_ALIGN_TOL from that of its first segment, the lines of one
\* bucket are more than STITCH_GAP_TOL apart, and every input span lies in
\* the span of exactly one line of the result.
C19_StitchAsStated ==
    StitchReturned =>
        LET buckets == Buckets(f_lines, f_orientation)
        IN  /\ \A b \in 1..Len(buckets) :
                  /\ BucketSet(buckets[b]) =
                        { j \in 1..Len(f_lines) :
                            Abs(Position(f_lines[j], f_orientation)
                                - Position(f_lines[buckets[b][1]], f_orientation))
                               < STITCH_ALIGN_TOL }
                  /\ GapsAbove(StitchBucket(BucketLines(f_lines, buckets[b]),
                                            f_orientation), f_orientation)
            /\ \A j \in 1..Len(f_lines) :
                  Cardinality({ k \in 1..Len(f_result) :
                        SpanInside(f_lines[j], f_result[k], f_orientation) }) = 1

\* C19: a bucket holds the segments, not taken by an earlier bucket, whose
\* position is less than STITCH_ALIGN_TOL from that of its first segment;
\* the lines a bucket gives are more than STITCH_GAP_TOL apart; the span of
\* every segment of the bucket lies in the span of exactly one of them; the
\* result is the lines of the buckets in bucket order.
C19_StitchFusesGaps ==
    StitchReturned =>
        LET buckets == Buckets(f_lines, f_orientation)
        IN  /\ \A b \in 1..Len(buckets) :
                  LET out == StitchBucket(BucketLines(f_lines, buckets[b]),
                                          f_orientation)
                      free == (1..Len(f_lines)) \ EarlierBuckets(buckets, b)
                  IN  /\ buckets[b][1] = SetMin(free)
                      /\ BucketSet(buckets[b]) =
                            { j \in free :
                                Abs(Position(f_lines[j], f_orientation)
                                    - Position(f_lines[buckets[b][1]], f_orientation))
                                   < STITCH_ALIGN_TOL }
                      /\ GapsAbove(out, f_orientation)
                      /\ \A j \in BucketSet(buckets[b]) :
                            Cardinality({ k \in 1..Len(out) :
                                SpanInside(f_lines[j], out[k], f_orientation) }) = 1
            /\ f_result = StitchAll(f_lines, buckets, f_orientation)
            /\ UNION { BucketSet(buckets[b]) : b \in 1..Len(buckets) }
                  = 1..Len(f_lines)

\* a bucket of three segments gave two lines: one fused over a gap of
\* STITCH_GAP_TOL, the other STITCH_GAP_TOL + 1 away from it
C19_Witness ==
    /\ StitchReturned
    /\ Len(f_lines) = 3
    /\ Len(Buckets(f_lines, f_orientation)) = 1
    /\ Len(f_result) = 2
    /\ \E i, j \in 1..3 :
          SpanStart(f_lines[j], f_orientation)
              = SpanEnd(f_lines[i], f_orientation) + STITCH_GAP_TOL
    /\ SpanStart(f_result[2], f_orientation)
          = SpanEnd(f_result[1], f_orientation) + STITCH_GAP_TOL + 1

\* C20: merge_diagonals_wobble terminates: a pass that sets changed returns
\* fewer lines than it received, the number of passes is at most the number
\* of input lines, the call returns, and the returned list is a fixed point
\* of the clustering pass.
C20_WobbleTerminates ==
    /\ [][(w_pc = "loop" /\ w_passes' = w_passes + 1 /\ changed')
             => Len(current_lines') < Len(current_lines)]_vars
    /\ [](w_passes <= Len(w_lines))
    /\ <>(w_pc = "returned")
    /\ [](w_pc = "returned" =>
             /\ ClusterPass(current_lines).new_lines = current_lines
             /\ ~ClusterPass(current_lines).changed)

\* three lines took two merging passes and a third pass that merged nothing
C20_Witness ==
    /\ w_pc = "returned"
    /\ Len(w_lines) = 3
    /\ w_passes = 3
    /\ Len(current_lines) = 1
    /\ w_received = current_lines

(***************************************************************************)
(* SegmentFuser: claim C21                                                 *)
(***************************************************************************)

\* the smaller angle between the two lines, taken without direction, is at
\* most 15 degrees: min(d, 180 - d) <= 15
WithinFifteen(a, b) ==
    \E u \in {Direction(a)}, v \in {Direction(b)} :
        \E dot \in {Abs(u[1] * v[1] + u[2] * v[2])},
           cross \in {Abs(u[1] * v[2] - u[2] * v[1])} :
            dot > 0 /\ AtMost15(cross, dot)

\* the tests of width and gap (lines 146-154) let cand join base
CloseTogether(base, cand) ==
    /\ NearLine(P1(cand), base)
    /\ NearLine(P2(cand), base)
    /\ NearEnd(base, cand)

\* C21: for two lines that pass the tests of width and gap, the call
\* merges them exactly when the smaller angle between them is at most
\* 15 degrees
C21_AngleCriterion ==
    (w_pc = "returned" /\ Len(w_lines) = 2)
        => \A sorted \in {SortByLength(w_lines)} :
              CloseTogether(sorted[1], sorted[2])
                  => (Len(current_lines) = 1 <=> WithinFifteen(sorted[1], sorted[2]))

(***************************************************************************)
(* CornerLocker: claims C22, C23, C24, C30                                 *)
(***************************************************************************)

\* the two ends of line k of ls
EndsOfLine(ls, k) == { P1(ls[k]), P2(ls[k]) }

\* C24: when fuse_close_endpoints has returned, two ends of different lines
\* that are less than FUSE_DIST apart have the same coordinates
C24_NoNearMiss ==
    c_pc = "done"
        => \A k, n \in 1..Len(all_lines) :
              k # n => \A p \in EndsOfLine(all_lines, k), q \in EndsOfLine(all_lines, n) :
                          SqDist(p, q) < FUSE_DIST * FUSE_DIST => p = q

\* the horizontals as the loop finds them when the turn of vertical i
\* begins (lines 182-184)
HorzsBefore(i) == ConnectVerticals(SubSeq(final_v, 1, i - 1), final_h, {}, 1).horzs

\* vertical i as the loop finds it when it comes to horizontal j
VerticalBefore(i, j) ==
    ConnectHorizontals(final_v[i], Min2(final_v[i][2], final_v[i][4]),
                       Max2(final_v[i][2], final_v[i][4]),
                       SubSeq(HorzsBefore(i), 1, j - 1), {}, 1).v

\* what the loop does with vertical i and horizontal j (lines 185-212)
JunctionStep(i, j) ==
    ConnectPair(VerticalBefore(i, j), Min2(final_v[i][2], final_v[i][4]),
                Max2(final_v[i][2], final_v[i][4]), HorzsBefore(i)[j])

\* of the line before, at most the coordinate at position near or at
\* position far was rewritten, and the end rewritten was not farther from
\* the junction coordinate at than the other end
NearerEndRewritten(before, after, near, far, at) ==
    \/ after = before
    \/ /\ after = SetAt(before, near, at)
       /\ Abs(before[near] - at) <= Abs(before[far] - at)
    \/ /\ after = SetAt(before, far, at)
       /\ Abs(before[far] - at) <= Abs(before[near] - at)

NearerAsReadRewritten(read, before, after, near, far, at) ==
    \/ after = before
    \/ /\ after = SetAt(before, near, at)
       /\ Abs(read[near] - at) <= Abs(read[far] - at)
    \/ /\ after = SetAt(before, far, at)
       /\ Abs(read[far] - at) <= Abs(read[near] - at)

C23_LocksApart ==
    c_pc = "diagonals"
        => \A p, q \in locked_set :
              p # q => ~(Abs(p[1] - q[1]) < 5 /\ Abs(p[2] - q[2]) < 5)

\* C30: when connect_corners_vh_and_lock has returned, every locked point is
\* an end of a returned vertical or horizontal
C30_LocksAreVertices ==
    c_pc = "diagonals"
        => \A lp \in locked_set :
              \E k \in 1..Len(final_v \o final_h) : lp \in EndsOfLine(final_v \o final_h, k)

(***************************************************************************)
(* CrossFloorMatcher: claim C28                                            *)
(***************************************************************************)

\* segment i of the result is the copy of segment i of the input: the same
\* keys, every value the input's or a reference value less than threshold
\* away from it
CopyOf(out, in) ==
    /\ DOMAIN out = DOMAIN in
    /\ \A key \in DOMAIN in : Abs(out[key] - in[key]) < threshold

SwapEnds(seg) ==
    [seg EXCEPT !.x1 = seg.x2, !.y1 = seg.y2, !.x2 = seg.x1, !.y2 = seg.y1]

SwapAt(ls, i) == [ls EXCEPT ![i] = SwapEnds(@)]

\* lines 127-293 as a function: the list after the loop body for one item
EntryResult(ls, entry) ==
    LET branch == Branch(ls, entry)
        cands == IF branch = "crossed"
                 THEN already_intersects(ls, entry.line_idx, entry.pt[1], entry.pt[2])
                 ELSE intersections(ls, entry.line_idx, entry.pt[1], entry.pt[2])
    IN  IF branch \in {"crossed", "fresh"}
        THEN MoveEnd(ls, entry.line_idx, entry.position, Rounded(Closest(cands).pt))
        ELSE ls

\* lines 125-293: the items of free_endpoints from k on
RECURSIVE PassResult(_, _, _)
PassResult(ls, free, k) ==
    The({IF n > Len(free) THEN list
         ELSE PassResult(EntryResult(list, free[n]), free, n + 1)
           : list \in {ls}, n \in {k}})

\* lines 103-299: passes until one changes nothing or the cap is reached
RECURSIVE PassesFrom(_, _)
PassesFrom(ls, it) ==
    The({IF n >= max_iterations THEN list
         ELSE The({IF after = list THEN list ELSE PassesFrom(after, n + 1)
                     : after \in {PassResult(list, FreeEndpoints(list), 1)}})
           : list \in {ls}, n \in {it}})

\* lines 82-301: the returned list
extend_endpoints(ls) == IF ls = <<>> THEN ls ELSE PassesFrom(ls, 0)

\* the function returns what the steps of the call leave in lines
ExtendAgrees == e_pc = "done" => extend_endpoints(lines_data) = lines

\* the current item with its segment stored the other way round
SwappedEntry ==
    [Entry EXCEPT !.position = IF Entry.position = "start" THEN "end" ELSE "start"]

\* the snap-back branch is taken for the current item, for the segment as
\* stored
CrossedAsStored == Branch(lines, Entry) = "crossed"

\* the same for the segment stored with its ends exchanged
CrossedAsSwapped == Branch(SwapAt(lines, Entry.line_idx), SwappedEntry) = "crossed"

\* C29: EndpointExtender treats both ends of a segment alike: the list
\* returned for the input with one segment's (x1, y1) and (x2, y2) exchanged is
\* the list returned for the input with the same exchange, and the
\* already-crossed snap-back is taken for a free endpoint stored as start
\* exactly when it is taken for the same endpoint stored as end.
C29_EndsAlike ==
    /\ (e_pc = "done") =>
          \A i \in 1..Len(lines_data) :
              extend_endpoints(SwapAt(lines_data, i)) = SwapAt(lines, i)
    /\ (e_pc = "endpoints" /\ e_k <= Len(free_endpoints)) =>
          (CrossedAsStored <=> CrossedAsSwapped)

(***************************************************************************)
(* CrossFloorMatcher: claim C10                                            *)
(***************************************************************************)

\* the reference value claimed for old: of minimal absolute difference, the
\* first found among equals, when that difference is <= threshold
Claimed(axis, old) ==
    LET pts == extract_unique_points(reference_segments)
        best == CHOOSE i \in 1..Len(pts) :
                    /\ \A j \in 1..Len(pts) :
                          Abs(pts[i][axis] - old) <= Abs(pts[j][axis] - old)
                    /\ \A j \in 1..(i - 1) :
                          Abs(pts[j][axis] - old) > Abs(pts[i][axis] - old)
    IN  IF Abs(pts[best][axis] - old) <= threshold THEN pts[best][axis] ELSE old

\* C10: match_coordinates replaces every target X value (resp. Y value), in
\* every endpoint that has it, by the reference X (resp. Y) of minimal
\* absolute difference, first found winning ties, whenever that difference is
\* <= threshold, and leaves it unchanged otherwise.
C10_MappingWithinThreshold ==
    m_pc = "returned" =>
        \A i \in 1..Len(target_segments) :
            /\ modified_segments[i].x1 = Claimed(1, target_segments[i].x1)
            /\ modified_segments[i].y1 = Claimed(2, target_segments[i].y1)
            /\ modified_segments[i].x2 = Claimed(1, target_segments[i].x2)
            /\ modified_segments[i].y2 = Claimed(2, target_segments[i].y2)

====
